---- MODULE Spec2Model ----
(***************************************************************************)
(* Vulkan2D: the descriptor pool controller (VK2D/DescriptorControl.c)     *)
(* and the renderer's frame / target / swapchain state machine             *)
(* (Renderer.c).                                                           *)
(*                                                                         *)
(* Three groups of variables.  SpecDesc drives one descriptor controller   *)
(* through its public operations; Spec, SpecSync, SpecCfg, SpecTarget and  *)
(* SpecLife drive the renderer's calls; SpecSys drives the construction,   *)
(* rebuild and teardown of its subsystems.                                 *)
(*                                                                         *)
(* Handles are modelled by what identifies                                 *)
(* them: a descriptor set by <<pool index, slot in the pool>>, a fence by  *)
(* the index of the frame slot that owns it, a framebuffer or image by the *)
(* swapchain image index or the texture it belongs to.                     *)
(***************************************************************************)
EXTENDS Integers, Sequences, FiniteSets, TLC

(***************************************************************************)
(* Bounds of the model.                                                    *)
(***************************************************************************)
\* Sets one pool can hold (VK2D_DEFAULT_DESCRIPTOR_POOL_ALLOCATION, scaled down).
PoolCapacity == 2
\* Slots added to the pool list per realloc (VK2D_DEFAULT_ARRAY_EXTENSION, scaled down).
ArrayExtension == 2
\* Acquisitions the model makes between two resets.
MaxGets == 5
\* Iterations of the acquisition loop after which the call is taken to never return.
LoopFuel == 6

(***************************************************************************)
(* Program constants.                                                      *)
(***************************************************************************)
\* VkDescriptorPoolSize sizes[2] in _vk2dDescConAppendList.
SizesCapacity == 2

Kinds == {"buffer", "sampler", "storageBuffer"}
KindSets == SUBSET Kinds \ {{}}
Getters == {"GetSet", "GetBufferSet", "GetSamplerSet", "GetSamplerBufferSet"}
\* VK_NULL_HANDLE as a descriptor set.
NullSet == <<>>
\* What a build does when the code's behaviour is undefined (a write past the
\* end of sizes[] or of the pool list, a driver call on a handle that was never
\* created): nothing visible, a crash, or a pool whose size table is garbage and
\* that therefore holds no set of the layout.
UBOutcomes == {"benign", "crash", "starved"}

VARIABLES
    dc,         \* the controller: state, kinds, poolListSize, poolsInUse, pools
    build,      \* the outcome this build gives undefined behaviour
    issued,     \* the sets handed out since the last reset
    lastSet,    \* what the last acquisition returned
    lastWrites, \* the descriptor writes the last acquisition issued
    dcHist      \* history: calls made, errors the environment reported, the last result

dcVars == <<dc, build, issued, lastSet, lastWrites, dcHist>>

VARIABLES
    rd,     \* gRenderer: the fields of the renderer singleton
    gpu,    \* the device: the fences, the submissions not yet completed, the
            \* textures' layouts and the command buffers' recording states
    env,    \* the window: whether it is minimized, its drawable size
    pc,     \* where the calling thread is: "idle" between calls, or blocked in a call
    cmds    \* the driver calls and commands issued by the last (or the running) call

rVars == <<rd, gpu, env, pc, cmds>>

VARIABLES
    sys     \* the subsystem objects the renderer builds, rebuilds and tears down

vars == <<dc, build, issued, lastSet, lastWrites, dcHist, rd, gpu, env, pc, cmds, sys>>

(***************************************************************************)
(* _vk2dDescConAppendList: grow the list when it is full (realloc may      *)
(* fail), fill sizes[] with one entry per enabled kind, create the pool    *)
(* into pools[poolsInUse], count it.  The failed realloc and the failed    *)
(* creation are only reported: the function goes on.                       *)
(***************************************************************************)
\* The entries _vk2dDescConAppendList writes into sizes[], in the order of
\* its three tests: one per kind whose binding is not VK2D_NO_LOCATION.
PoolSizes(d) ==
    SelectSeq(<<"buffer", "sampler", "storageBuffer">>, LAMBDA k : k \in d.kinds)

NewPool(d, createOk) ==
    [created |-> createOk,
     used |-> 0,
     cap |-> IF Len(PoolSizes(d)) > SizesCapacity /\ build = "starved"
             THEN 0 ELSE PoolCapacity]

GrowList(d, reallocOk) ==
    IF d.poolListSize = d.poolsInUse /\ reallocOk
    THEN [d EXCEPT !.poolListSize = @ + ArrayExtension]
    ELSE d

\* The pool-size entries written exceed sizes[], or the handle is written
\* at an index the list does not have.
AppendIsUndefined(d) ==
    \/ Len(PoolSizes(d)) > SizesCapacity
    \/ d.poolsInUse >= d.poolListSize

vk2dDescConAppendList(d, reallocOk, createOk) ==
    LET g == GrowList(d, reallocOk)
        h == [g EXCEPT !.hostFail = @ \/ (d.poolListSize = d.poolsInUse /\ ~reallocOk),
                       !.devErr = @ \/ ~createOk,
                       !.ubHit = @ \/ AppendIsUndefined(g)]
    IN  IF AppendIsUndefined(g) /\ build = "crash"
        THEN [h EXCEPT !.state = "crashed"]
        ELSE [h EXCEPT !.pools = Append(@, NewPool(g, createOk)),
                       !.poolsInUse = @ + 1]

(***************************************************************************)
(* _vk2dDescConGetAvailableSet: the loop over the pools.  o is what the    *)
(* environment answers during this call: the pool index at which the       *)
(* device reports an error other than exhaustion (-1: none), and the       *)
(* outcomes of realloc and of pool creation should a pool be appended.     *)
(* The result is the controller after the call, the set returned and the   *)
(* result of the last vkAllocateDescriptorSets.                            *)
(***************************************************************************)
RECURSIVE AllocLoop(_, _, _, _)
AllocLoop(d, i, o, fuel) ==
    IF fuel = 0 THEN [d |-> [d EXCEPT !.state = "hung"], set |-> NullSet, res |-> "none"]
    ELSE
    LET p == d.pools[i + 1] IN
    IF ~p.created
    THEN \* vkAllocateDescriptorSets on a handle that no creation produced
         [d |-> [d EXCEPT !.ubHit = TRUE,
                          !.state = IF build = "crash" THEN "crashed" ELSE @],
          set |-> NullSet, res |-> "undefined"]
    ELSE IF o.errAt = i
    THEN \* res is neither success nor out-of-pool-memory: report, break
         [d |-> [d EXCEPT !.devErr = TRUE], set |-> NullSet, res |-> "error"]
    ELSE IF p.used < p.cap
    THEN [d |-> [d EXCEPT !.pools[i + 1].used = @ + 1], set |-> <<i, p.used>>,
          res |-> "VK_SUCCESS"]
    ELSE \* VK_ERROR_OUT_OF_POOL_MEMORY: next pool, appending one after the last
         LET d2 == IF i + 1 = d.poolsInUse
                   THEN vk2dDescConAppendList(d, o.reallocOk, o.createOk)
                   ELSE d
         IN  IF d2.state # "live" THEN [d |-> d2, set |-> NullSet, res |-> "none"]
             ELSE AllocLoop(d2, i + 1, o, fuel - 1)

\* Faulty variant: an error other than exhaustion answered with a new pool.
AppendsOnError(d, o) ==
    LET r == AllocLoop(d, 0, o, LoopFuel)
    IN  IF r.res = "error"
        THEN [r EXCEPT !.d = vk2dDescConAppendList(r.d, o.reallocOk, o.createOk)]
        ELSE r

\* Faulty variant: the loop starting at the pool appended last.
StartsAtLastPool(d, o) == AllocLoop(d, d.poolsInUse - 1, o, LoopFuel)

vk2dDescConGetAvailableSet(d, o) == AllocLoop(d, 0, o, LoopFuel)

(***************************************************************************)
(* The descriptor writes of the bound getters.  A kind the controller was  *)
(* created without has binding index VK2D_NO_LOCATION.                     *)
(***************************************************************************)
Binding(d, kind) == IF kind \in d.kinds THEN kind ELSE "NO_LOCATION"

WritesOf(getter, d, set) ==
    CASE getter = "GetSet" -> <<>>
      [] getter = "GetBufferSet" ->
            <<[type |-> "UNIFORM_BUFFER", binding |-> Binding(d, "buffer"), set |-> set]>>
      [] getter = "GetSamplerSet" ->
            <<[type |-> "SAMPLED_IMAGE", binding |-> Binding(d, "sampler"), set |-> set]>>
      [] getter = "GetSamplerBufferSet" ->
            <<[type |-> "UNIFORM_BUFFER", binding |-> Binding(d, "buffer"), set |-> set],
              [type |-> "SAMPLED_IMAGE", binding |-> Binding(d, "sampler"), set |-> set]>>

NoController ==
    [state |-> "none", kinds |-> {}, poolListSize |-> 0, poolsInUse |-> 0,
     pools |-> <<>>, devErr |-> FALSE, hostFail |-> FALSE, ubHit |-> FALSE]

NoHist == [acq |-> 0, nullRet |-> FALSE, dup |-> FALSE, res |-> "none"]

DescInit ==
    /\ dc = NoController
    /\ build \in UBOutcomes
    /\ issued = {}
    /\ lastSet = NullSet
    /\ lastWrites = <<>>
    /\ dcHist = NoHist

(***************************************************************************)
(* vk2dDescConCreate: calloc the controller, set its fields, append the    *)
(* first pool.  The controller is returned whatever the append did.        *)
(***************************************************************************)
vk2dDescConCreate(kinds, callocOk, reallocOk, createOk) ==
    /\ dc.state = "none"
    /\ dc' = IF ~callocOk THEN [dc EXCEPT !.state = "null", !.hostFail = TRUE]
             ELSE vk2dDescConAppendList(
                      [NoController EXCEPT !.state = "live", !.kinds = kinds],
                      reallocOk, createOk)
    /\ UNCHANGED <<build, issued, lastSet, lastWrites, dcHist>>
    /\ UNCHANGED <<rVars, sys>>

(***************************************************************************)
(* vk2dDescConGetSet / GetBufferSet / GetSamplerSet / GetSamplerBufferSet: *)
(* acquire a set, then (the bound getters) vkUpdateDescriptorSets on it,   *)
(* unconditionally.                                                        *)
(***************************************************************************)
vk2dDescConGet(getter, o) ==
    /\ dc.state = "live"
    /\ dcHist.acq < MaxGets
    /\ LET r == vk2dDescConGetAvailableSet(dc, o)
           w == WritesOf(getter, r.d, r.set)
           returned == r.d.state = "live"
           \* vkUpdateDescriptorSets with a null dstSet
           nullWrite == returned /\ r.set = NullSet /\ w # <<>>
       IN  /\ dc' = IF nullWrite
                    THEN [r.d EXCEPT !.ubHit = TRUE,
                                     !.state = IF build = "crash" THEN "crashed" ELSE @]
                    ELSE r.d
           /\ lastSet' = r.set
           /\ lastWrites' = IF returned THEN w ELSE <<>>
           /\ issued' = IF r.set = NullSet THEN issued ELSE issued \cup {r.set}
           /\ dcHist' = [dcHist EXCEPT !.acq = @ + 1,
                                       !.nullRet = @ \/ r.set = NullSet \/ dc'.state # "live",
                                       !.dup = @ \/ r.set \in issued,
                                       !.res = r.res]
    /\ UNCHANGED build
    /\ UNCHANGED <<rVars, sys>>

(***************************************************************************)
(* vk2dDescConReset: vkResetDescriptorPool on every pool in use.           *)
(***************************************************************************)
ResetPools(d) ==
    [d EXCEPT !.pools = [k \in 1..Len(@) |-> [@[k] EXCEPT !.used = 0]],
              !.ubHit = @ \/ \E k \in 1..Len(d.pools) : ~d.pools[k].created,
              !.state = IF build = "crash" /\ \E k \in 1..Len(d.pools) : ~d.pools[k].created
                        THEN "crashed" ELSE @]

vk2dDescConReset ==
    /\ dc.state = "live"
    /\ dcHist.acq > 0
    /\ dc' = ResetPools(dc)
    /\ issued' = {}
    /\ dcHist' = NoHist
    /\ UNCHANGED <<build, lastSet, lastWrites>>
    /\ UNCHANGED <<rVars, sys>>

Oracles(d) ==
    [errAt : -1 .. d.poolsInUse, reallocOk : BOOLEAN, createOk : BOOLEAN]

DescNext ==
    \/ \E kinds \in KindSets, callocOk, reallocOk, createOk \in BOOLEAN :
          vk2dDescConCreate(kinds, callocOk, reallocOk, createOk)
    \/ \E getter \in Getters, o \in Oracles(dc) : vk2dDescConGet(getter, o)
    \/ vk2dDescConReset

\* A config of zero bytes: VK2DRendererConfig c = {}, and the calloc'ed singleton.
ZeroConfig == [msaa |-> 0, screenMode |-> "zero", filterMode |-> "zero"]

\* Null handles of the calloc'ed singleton.
NullPass == [state |-> "null", msaa |-> 0, depthFormat |-> "VK_FORMAT_UNDEFINED"]
NoPipeInfo == [null |-> TRUE, freed |-> FALSE, defs |-> <<>>]

\* gRenderer before vk2dRendererInit and after vk2dRendererQuit.
\* The draw bookkeeping of a frame: whether a frame is open, the secondary
\* buffers handed out (drawCommandBuffers[drawCommandPool]), drawOffset, the
\* framebuffer drawn to, the number of the render pass instance that is open,
\* the pass instance each secondary buffer was recorded for, and the
\* <<buffer, pass instance>> pairs vkCmdExecuteCommands has executed.
NoFrame ==
    [active |-> FALSE, count |-> 0, offset |-> 0, target |-> 0, pass |-> 0,
     recorded |-> <<>>, executed |-> <<>>]

NoSys ==
    [state |-> "none", frame |-> NoFrame, ubMode |-> "benign", ubHit |-> FALSE, leaked |-> FALSE,
     alive |-> {}, config |-> ZeroConfig, newConfig |-> ZeroConfig,
     dsiOk |-> FALSE, dsiAvailable |-> FALSE, dsi |-> "NULL", msaaImage |-> "NULL",
     renderPass |-> NullPass,
     framebuffers |-> [state |-> "null", pass |-> NullPass, depth |-> "NULL"],
     builtinPipes |-> [state |-> "null", pass |-> NullPass, size |-> <<0, 0>>],
     window |-> <<0, 0>>, surfaceSize |-> <<0, 0>>,
     pipeCount |-> 0, customPipeInfo |-> NoPipeInfo, customPipes |-> <<>>,
     log |-> <<>>]

RendererIdle ==
    /\ rd = [state |-> "none"]
    /\ gpu = [queue |-> <<>>]
    /\ env = [minimized |-> FALSE]
    /\ pc = "idle"
    /\ cmds = <<>>
    /\ sys = NoSys

\* No controller yet, and no renderer.
InitDesc == DescInit /\ RendererIdle

SpecDesc == InitDesc /\ [][DescNext]_vars

(***************************************************************************)
(* Claims about the descriptor pool controller.                            *)
(***************************************************************************)
\* Pools that hold K sets: ceil(K / capacity), at least 1.
PoolsNeeded(k) ==
    IF k = 0 THEN 1 ELSE (k + PoolCapacity - 1) \div PoolCapacity

\* No operation of the run so far had undefined behaviour.
DescDefined == ~dc.ubHit

\* C1: with no reset in between and no device error other than pool
\* exhaustion, every acquisition returns a non-null set, no two return the
\* same set, also past one pool's capacity.
C1_EveryAcquisitionDistinct ==
    (dcHist.acq > 0 /\ ~dc.devErr) => (~dcHist.nullRet /\ ~dcHist.dup)

\* C1 restricted to runs of defined behaviour (at most two kinds enabled, no
\* failed realloc): there the controller grows and every set is distinct.
C1_DefinedRuns ==
    (dcHist.acq > 0 /\ ~dc.devErr /\ DescDefined) =>
        /\ ~dcHist.nullRet /\ ~dcHist.dup
        /\ Cardinality(issued) = dcHist.acq
        /\ dc.poolsInUse >= PoolsNeeded(dcHist.acq)

C1_DefinedRuns_Witness ==
    /\ DescDefined /\ ~dc.devErr /\ dc.state = "live"
    /\ dcHist.acq = MaxGets /\ dc.poolsInUse > 1
    /\ Cardinality(issued) = MaxGets

\* A reset step: the acquisitions of the cycle are forgotten.
IsResetStep == dcHist.acq > 0 /\ dcHist'.acq = 0

\* A reset keeps poolsInUse and returns the capacity of every pool.
ResetKeepsPools ==
    [][IsResetStep /\ dc'.state = "live" =>
            /\ dc'.poolsInUse = dc.poolsInUse
            /\ \A k \in 1..Len(dc'.pools) : dc'.pools[k].used = 0]_dcVars

\* C2: in runs that alternate reset with at most MaxGets acquisitions per
\* cycle, poolsInUse never exceeds the number of pools MaxGets sets need.
C2_PoolCountBounded ==
    dc.poolsInUse <= PoolsNeeded(MaxGets)

\* C2 restricted to runs of defined behaviour.
C2_DefinedRuns ==
    DescDefined => dc.poolsInUse <= PoolsNeeded(MaxGets)

C2_DefinedRuns_Witness ==
    /\ DescDefined /\ dc.state = "live" /\ dc.poolsInUse = PoolsNeeded(MaxGets)
    /\ dcHist.acq = 1 /\ lastSet = <<0, 0>> /\ dc.poolsInUse > 1

(***************************************************************************)
(*                              The renderer                               *)
(***************************************************************************)
\* VK2D_MAX_FRAMES_IN_FLIGHT.
MaxFramesInFlight == 2
\* surfaceCapabilities.minImageCount of the modelled surface.
MinImageCount == 2
\* vk2dPhysicalDeviceGetMSAA of the modelled device.
DeviceMaxMSAA == 2
\* Off-screen textures the caller owns.
NumTextures == 2
\* VK2D_TARGET_SCREEN, the null texture handle.
ScreenTarget == 0
\* VK_NULL_HANDLE in imagesInFlight (calloc'ed).
NullFence == -1
\* The currentExtent a surface reports when it leaves its size to the swapchain:
\* 0xFFFFFFFF, written as the signed value of that 32-bit pattern.
UINT32_MAX == -1
\* Milliseconds of accumulated time after which the average is recomputed.
AverageWindow == 1000

Slots == 0 .. (MaxFramesInFlight - 1)
\* sm_TripleBuffer asks for one image more than the minimum.
MaxImages == MinImageCount + 1
Images == 0 .. (MaxImages - 1)
Textures == 1 .. NumTextures
Targets == {ScreenTarget} \cup Textures

\* gRenderer->presentModes: what the surface supports; FIFO always is.
PresentModes == {"FIFO", "MAILBOX"}

ExtentUndefined == <<UINT32_MAX, UINT32_MAX>>
WindowSizes == {<<4, 3>>, <<2, 2>>}
TexExtent(k) == <<8 * k, 8>>

NullHandle == <<"null", 0>>

\* _vk2dRendererGetPresentMode: the preferred mode if available, else FIFO.
GetPresentMode(mode) == IF mode \in PresentModes THEN mode ELSE "FIFO"

\* maxMSAA >= config.msaa ? config.msaa : maxMSAA
ClampMSAA(m) == IF DeviceMaxMSAA >= m THEN m ELSE DeviceMaxMSAA

\* _vk2dRendererGetSurfaceSize
GetSurfaceSize(caps, window) ==
    IF caps[1] = UINT32_MAX \/ caps[2] = UINT32_MAX THEN window ELSE caps

\* _vk2dRendererCreateSwapchain: the present mode is replaced by a supported
\* one in the active config, and the image count follows from it.
CreateSwapchain(r) ==
    LET mode == GetPresentMode(r.config.screenMode)
    IN  [r EXCEPT !.config.screenMode = mode,
                  !.swapchainImageCount =
                      MinImageCount + (IF mode = "MAILBOX" THEN 1 ELSE 0)]

\* _vk2dRendererCreateSynchronization: fences created signaled, imagesInFlight zeroed.
CreateSynchronizationR(r) ==
    [r EXCEPT !.imagesInFlight = [i \in Images |-> NullFence]]

\* The command buffers are per swapchain image and come fresh with the image set.
CreateSynchronizationG(g) ==
    [g EXCEPT !.fenceSignaled = [s \in Slots |-> TRUE],
              !.commandBuffer = [i \in Images |->
                                    [state |-> "initial", pass |-> <<"null", NullHandle>>]]]

\* The order of teardown and construction in _vk2dRendererResetSwapchain.
RebuildLog ==
    << <<"vkDeviceWaitIdle">>,
       <<"Destroy", "Synchronization">>, <<"Destroy", "Sampler">>,
       <<"Destroy", "DescriptorPool">>, <<"Destroy", "UniformBuffers">>,
       <<"Destroy", "FrameBuffer">>, <<"Destroy", "Pipelines">>,
       <<"Destroy", "RenderPass">>, <<"Destroy", "DepthStencilImage">>,
       <<"Destroy", "ColourResources">>, <<"Destroy", "Swapchain">>,
       <<"SwapConfig">>, <<"GetSurfaceSize">>,
       <<"Create", "Swapchain">>, <<"Create", "ColourResources">>,
       <<"Create", "DepthStencilImage">>, <<"Create", "RenderPass">>,
       <<"Create", "Pipelines">>, <<"Create", "FrameBuffer">>,
       <<"Create", "UniformBuffers">>, <<"Create", "DescriptorPool">>,
       <<"Create", "Sampler">>, <<"Create", "Synchronization">> >>

\* Faulty variant: a rebuild that keeps the old config.
KeepConfig(r) == r

\* _vk2dRendererResetSwapchain, past the minimized-window loop: the renderer's fields.
SwapConfig(r) == [r EXCEPT !.config = r.newConfig]

ResetSwapchainR(r, e) ==
    LET a == SwapConfig(r)
        b == [a EXCEPT !.surfaceSize = GetSurfaceSize(a.capsExtent, e.windowSize)]
    IN  CreateSynchronizationR(CreateSwapchain(b))

\* ... and the device: idle (every submission completed), fences recreated.
ResetSwapchainG(g) ==
    CreateSynchronizationG([g EXCEPT !.queue = <<>>])

(***************************************************************************)
(* The state after vk2dRendererInit(window, config) succeeded.             *)
(***************************************************************************)
\* A camera spec: where the camera looks (x stands for the world-side fields)
\* and its rectangle on the screen.  ZeroCamera is what calloc and a
\* VK2DCameraSpec c = {} hold.
ZeroCamera == [x |-> 0, xOnScreen |-> 0, yOnScreen |-> 0, wOnScreen |-> 0, hOnScreen |-> 0]

InitRenderer(config, caps, window) ==
    LET c == [config EXCEPT !.msaa = ClampMSAA(config.msaa)]
        r0 == [state |-> "live", ubHit |-> FALSE,
               procedStartFrame |-> FALSE, currentFrame |-> 0, scImageIndex |-> 0,
               swapchainImageCount |-> 0,
               imagesInFlight |-> [i \in Images |-> NullFence],
               target |-> ScreenTarget, targetRenderPass |-> "null", targetSubPass |-> 0,
               targetFrameBuffer |-> NullHandle, targetImage |-> NullHandle,
               targetUBOSet |-> NullHandle,
               config |-> c, newConfig |-> c, resetSwapchain |-> FALSE,
               capsExtent |-> caps, surfaceSize |-> GetSurfaceSize(caps, window),
               previousTime |-> 0, accumulatedTime |-> 0, amountOfFrames |-> 0,
               frameTimeAverage |-> 0,
               cameraSpec |-> ZeroCamera, defaultCameraSpec |-> ZeroCamera]
    IN  CreateSynchronizationR(CreateSwapchain(r0))

\* The device before any work: no fence signaled, nothing submitted, every
\* texture of the caller readable by shaders.
NoDevice ==
    [fenceSignaled |-> [s \in Slots |-> FALSE], queue |-> <<>>,
     texLayout |-> [k \in Textures |-> "SHADER_READ_ONLY_OPTIMAL"],
     commandBuffer |-> [i \in Images |->
                           [state |-> "initial", pass |-> <<"null", NullHandle>>]]]

RendererInit(configs, extentKnown) ==
    /\ \E config \in configs, known \in extentKnown, window \in WindowSizes :
          /\ rd = InitRenderer(config, IF known THEN window ELSE ExtentUndefined, window)
          /\ env = [minimized |-> FALSE, windowSize |-> window]
    /\ gpu = CreateSynchronizationG(NoDevice)
    /\ pc = "idle"
    /\ cmds = <<>>
    /\ sys = NoSys

(***************************************************************************)
(* vk2dRendererStartFrame.  The call blocks twice, on the slot's fence and *)
(* on the fence of the acquired image's last user; the device goes on in   *)
(* between, so the call is three steps.                                    *)
(***************************************************************************)
\* Faulty variants: a startFrame that does not wait for the slot's fence, or
\* for the fence of the image's last user.
SlotFenceIgnored(r, g) == TRUE
ImageFenceIgnored(r, g) == TRUE

\* vkWaitForFences(inFlightFences[currentFrame]) returns.
SlotFenceObserved(r, g) == g.fenceSignaled[r.currentFrame]

\* imagesInFlight[scImageIndex] is null or vkWaitForFences on it returns.
ImageFenceObserved(r, g) ==
    IF r.imagesInFlight[r.scImageIndex] = NullFence THEN TRUE
    ELSE g.fenceSignaled[r.imagesInFlight[r.scImageIndex]]

\* What the commands of a call leave in commandBuffer[i]: its state, and the
\* render pass open in it with the framebuffer the pass was begun over.  A
\* command recorded where the buffer's state does not allow it makes the
\* buffer invalid until it is reset.
RECURSIVE Recorded(_, _)
Recorded(g, log) ==
    IF log = <<>> THEN g
    ELSE LET c == Head(log)
             NoPass == <<"null", NullHandle>>
             b == g.commandBuffer[c[2]]
             ok == b.state = "recording"
             Invalid == [state |-> "invalid", pass |-> NoPass]
             nb == IF c[1] = "vkResetCommandBuffer"
                   THEN [state |-> "initial", pass |-> NoPass]
                   ELSE IF c[1] = "vkBeginCommandBuffer"
                   THEN IF b.state = "initial"
                        THEN [state |-> "recording", pass |-> NoPass] ELSE Invalid
                   ELSE IF c[1] = "vkCmdBeginRenderPass"
                   THEN IF ok /\ b.pass = NoPass
                        THEN [b EXCEPT !.pass = <<c[3], c[4]>>] ELSE Invalid
                   ELSE IF c[1] = "vkCmdEndRenderPass"
                   THEN IF ok /\ b.pass # NoPass
                        THEN [b EXCEPT !.pass = NoPass] ELSE Invalid
                   ELSE IF ok /\ b.pass = NoPass
                        THEN [state |-> "executable", pass |-> NoPass] ELSE Invalid
         IN  IF c[1] \in {"vkResetCommandBuffer", "vkBeginCommandBuffer",
                          "vkCmdBeginRenderPass", "vkCmdEndRenderPass",
                          "vkEndCommandBuffer"}
             THEN Recorded([g EXCEPT !.commandBuffer[c[2]] = nb], Tail(log))
             ELSE Recorded(g, Tail(log))

\* The call being served, at the head of the driver calls it has issued.
Call(name, arg) == << <<"call", name, arg>> >>

\* if (gRenderer != NULL)
Initialized(r) == r.state # "none"

\* A call is served when the process has not crashed.
Callable(r) == r.state \in {"live", "none"}

\* Faulty variant: the call without its guard, waiting for a queue that is not there.
Unguarded(name, arg) == Call(name, arg) \o << <<"vkQueueWaitIdle">> >>

\* else vk2dLogMessage("Renderer is not initialized");
Reported(name, arg) ==
    Call(name, arg) \o << <<"vk2dLogMessage", "Renderer is not initialized">> >>

NotInitialized(name, arg) ==
    /\ cmds' = Reported(name, arg)
    /\ UNCHANGED <<rd, gpu, env, pc>>

\* Faulty variant: startFrame without its guard.
StartsAlways(r) == TRUE

\* if (!gRenderer->procedStartFrame)
FrameNotStarted(r) == ~r.procedStartFrame

\* The first step: the procedStartFrame guard and the timing start.
StartFrameEnter(r, t) ==
    [r EXCEPT !.procedStartFrame = TRUE, !.previousTime = t]

vk2dRendererStartFrame(t) ==
    /\ pc = "idle"
    /\ Callable(rd)
    /\ UNCHANGED <<dcVars, sys>>
    /\ IF ~Initialized(rd)
       THEN NotInitialized("vk2dRendererStartFrame", 0)
       ELSE /\ cmds' = Call("vk2dRendererStartFrame", 0)
            /\ IF FrameNotStarted(rd)
               THEN /\ rd' = StartFrameEnter(rd, t)
                    /\ pc' = "startFrame:slotFence"
                    /\ UNCHANGED <<gpu, env>>
               ELSE UNCHANGED <<rd, gpu, env, pc>>

\* vkAcquireNextImageKHR: a failed acquisition leaves scImageIndex as it was,
\* which after a rebuild to fewer images may index past the per-image arrays.
Acquired(r, acq, crash) ==
    LET i == IF acq.ok THEN acq.index ELSE r.scImageIndex
        past == i >= r.swapchainImageCount
    IN  [r EXCEPT !.scImageIndex = i,
                  !.ubHit = @ \/ past,
                  !.state = IF past /\ crash THEN "crashed" ELSE @]

StartFrameAcquire(acq, crash) ==
    /\ pc = "startFrame:slotFence"
    /\ SlotFenceObserved(rd, gpu)
    /\ acq.index < rd.swapchainImageCount
    /\ crash => (~acq.ok /\ rd.scImageIndex >= rd.swapchainImageCount)
    /\ rd' = Acquired(rd, acq, crash)
    /\ cmds' = cmds \o << <<"vkWaitForFences", rd.currentFrame>>,
                          <<"vkAcquireNextImageKHR", rd.currentFrame,
                            IF acq.ok THEN "VK_SUCCESS"
                            ELSE "VK_ERROR_OUT_OF_DATE_KHR">> >>
    /\ pc' = IF rd'.state = "live" THEN "startFrame:imageFence" ELSE "idle"
    /\ UNCHANGED <<gpu, env>>
    /\ UNCHANGED <<dcVars, sys>>

\* The rest of startFrame: the image's last user, the target state, the
\* command buffer and the default render pass.
StartFrameTargets(r) ==
    [r EXCEPT !.imagesInFlight[r.scImageIndex] = r.currentFrame,
              !.targetFrameBuffer = <<"framebuffers", r.scImageIndex>>,
              !.targetRenderPass = "renderPass",
              !.targetSubPass = 0,
              !.targetImage = <<"swapchainImages", r.scImageIndex>>,
              !.targetUBOSet = <<"cameraUboSets", r.scImageIndex>>,
              !.target = ScreenTarget]

StartFrameCmds(r) ==
    << <<"vkResetCommandBuffer", r.scImageIndex>>,
       <<"vkBeginCommandBuffer", r.scImageIndex>>,
       <<"vkCmdBeginRenderPass", r.scImageIndex, "renderPass",
         <<"framebuffers", r.scImageIndex>>, r.surfaceSize>> >>

\* The descriptor controllers of the acquired image are reset once the image's
\* last user is known to be done (the listing that keeps controllers per image).
ResetImageControllers(r) ==
    << <<"vk2dDescConReset", "descConPrim", r.scImageIndex>>,
       <<"vk2dDescConReset", "descConTex", r.scImageIndex>> >>

StartFrameBegin ==
    /\ pc = "startFrame:imageFence"
    /\ ImageFenceObserved(rd, gpu)
    /\ rd' = StartFrameTargets(rd)
    /\ cmds' = cmds
               \o (IF rd.imagesInFlight[rd.scImageIndex] = NullFence THEN <<>>
                   ELSE << <<"vkWaitForFences", rd.imagesInFlight[rd.scImageIndex]>> >>)
               \o ResetImageControllers(rd)
               \o StartFrameCmds(rd)
    /\ gpu' = Recorded(gpu, StartFrameCmds(rd))
    /\ pc' = "idle"
    /\ UNCHANGED env
    /\ UNCHANGED <<dcVars, sys>>

(***************************************************************************)
(* vk2dRendererEndFrame.  The rebuild it may run blocks while the window   *)
(* is minimized, so an endFrame that rebuilds then is two steps.           *)
(***************************************************************************)
\* Faulty variant: endFrame without its guard.
EndsAlways(r) == TRUE

\* if (gRenderer->procedStartFrame)
FrameStarted(r) == r.procedStartFrame

\* Faulty variant: an endFrame that goes on with a suboptimal swapchain.
RebuildsWhenUnusable(r, result, queueRes) ==
    result = "VK_ERROR_OUT_OF_DATE_KHR" \/ r.resetSwapchain

NeedsRebuild(r, result, queueRes) ==
    \/ result = "VK_ERROR_OUT_OF_DATE_KHR"
    \/ result = "VK_SUBOPTIMAL_KHR"
    \/ r.resetSwapchain
    \/ queueRes = "VK_ERROR_OUT_OF_DATE_KHR"

\* vkResetFences, vkQueueSubmit with the slot's fence.
Submit(r, g, submitOk) ==
    [g EXCEPT !.fenceSignaled[r.currentFrame] = FALSE,
              !.queue = IF submitOk
                        THEN Append(@, [fence |-> r.currentFrame, image |-> r.scImageIndex])
                        ELSE @]

EndFrameCmds(r) ==
    Call("vk2dRendererEndFrame", 0) \o
    << <<"vkCmdEndRenderPass", r.scImageIndex>>,
       <<"vkEndCommandBuffer", r.scImageIndex>>,
       <<"vkResetFences", r.currentFrame>>,
       <<"vkQueueSubmit", r.scImageIndex, r.currentFrame>>,
       <<"vkQueuePresentKHR", r.scImageIndex, r.currentFrame>> >>

\* Faulty variant: an endFrame that stays on its slot.
KeepsFrame(r) == r

\* After presentation and the rebuild, if any: the ring index and the frame time.
AdvanceFrame(r) ==
    [r EXCEPT !.currentFrame = (@ + 1) % MaxFramesInFlight]

FrameTime(r, elapsed) ==
    LET acc == r.accumulatedTime + elapsed
        n == r.amountOfFrames + 1
    IN  IF acc >= AverageWindow
        THEN [r EXCEPT !.frameTimeAverage = acc \div n,
                       !.accumulatedTime = 0, !.amountOfFrames = 0]
        ELSE [r EXCEPT !.accumulatedTime = acc, !.amountOfFrames = n]

EndFrameTail(r, elapsed) == FrameTime(AdvanceFrame(r), elapsed)

\* _vk2dRendererResetSwapchain(); gRenderer->resetSwapchain = false;
Rebuilt(r, e) == [ResetSwapchainR(r, e) EXCEPT !.resetSwapchain = FALSE]

vk2dRendererEndFrame(submitOk, result, queueRes, elapsed) ==
    /\ pc = "idle"
    /\ Callable(rd)
    /\ UNCHANGED <<dcVars, sys>>
    /\ IF ~Initialized(rd)
       THEN NotInitialized("vk2dRendererEndFrame", 0)
       ELSE /\ IF ~FrameStarted(rd)
               THEN /\ cmds' = Call("vk2dRendererEndFrame", 0)
                    /\ UNCHANGED <<rd, gpu, env, pc>>
               ELSE LET r1 == [rd EXCEPT !.procedStartFrame = FALSE]
                        g1 == Submit(rd, Recorded(gpu, EndFrameCmds(rd)), submitOk)
                    IN  /\ UNCHANGED env
                        /\ IF ~NeedsRebuild(rd, result, queueRes)
                           THEN /\ rd' = EndFrameTail(r1, elapsed)
                                /\ gpu' = g1
                                /\ cmds' = EndFrameCmds(rd)
                                /\ pc' = "idle"
                           ELSE IF env.minimized
                           THEN /\ rd' = r1
                                /\ gpu' = g1
                                /\ cmds' = EndFrameCmds(rd)
                                /\ pc' = "endFrame:minimized"
                           ELSE /\ rd' = EndFrameTail(Rebuilt(r1, env), elapsed)
                                /\ gpu' = ResetSwapchainG(g1)
                                /\ cmds' = EndFrameCmds(rd) \o RebuildLog
                                /\ pc' = "idle"

\* The window is no longer minimized: the rebuild runs and endFrame finishes.
\* A rebuild that does not wait for the window to be restored.
RebuildsWhileMinimized(elapsed) ==
    /\ pc = "endFrame:minimized"
    /\ rd' = EndFrameTail(Rebuilt(rd, env), elapsed)
    /\ gpu' = ResetSwapchainG(gpu)
    /\ cmds' = cmds \o RebuildLog
    /\ pc' = "idle"
    /\ UNCHANGED env
    /\ UNCHANGED <<dcVars, sys>>

EndFrameRebuild(elapsed) ==
    /\ pc = "endFrame:minimized"
    /\ ~env.minimized
    /\ rd' = EndFrameTail(Rebuilt(rd, env), elapsed)
    /\ gpu' = ResetSwapchainG(gpu)
    /\ cmds' = cmds \o RebuildLog
    /\ pc' = "idle"
    /\ UNCHANGED env
    /\ UNCHANGED <<dcVars, sys>>

(***************************************************************************)
(* vk2dRendererSetTarget: guarded by pointer equality with the active       *)
(* target only; there is no check that a frame is active.                  *)
(***************************************************************************)
\* Faulty variant: a setTarget that takes the external-target pass for the screen too.
ExternalPassAlways(target) == "externalTargetRenderPass"

TargetPass(target) ==
    IF target = ScreenTarget THEN "midFrameSwapRenderPass" ELSE "externalTargetRenderPass"

TargetFrameBuffer(r, target) ==
    IF target = ScreenTarget THEN <<"framebuffers", r.scImageIndex>> ELSE <<"fbo", target>>

TargetImage(r, target) ==
    IF target = ScreenTarget THEN <<"swapchainImages", r.scImageIndex>> ELSE <<"img", target>>

TargetUBOSet(r, target) ==
    IF target = ScreenTarget THEN <<"cameraUboSets", r.scImageIndex>> ELSE <<"uboSet", target>>

\* The one layout transition of a switch: of the image being left when the
\* screen is the new target, of the new target's image otherwise.
TargetTransition(r, target) ==
    IF target = ScreenTarget
    THEN <<"_vk2dTransitionImageLayout", r.scImageIndex, "COLOR_ATTACHMENT_OPTIMAL",
           r.targetImage, "SHADER_READ_ONLY_OPTIMAL">>
    ELSE <<"_vk2dTransitionImageLayout", r.scImageIndex, "SHADER_READ_ONLY_OPTIMAL",
           <<"img", target>>, "COLOR_ATTACHMENT_OPTIMAL">>

\* The layout the device holds a texture's image in after the transition.
Transitioned(g, r, target) ==
    LET tr == TargetTransition(r, target)
    IN  IF tr[4][1] = "img" THEN [g EXCEPT !.texLayout[tr[4][2]] = tr[5]] ELSE g

SetTargetCmds(r, target) ==
    Call("vk2dRendererSetTarget", target) \o
    << <<"vkCmdEndRenderPass", r.scImageIndex>>,
       TargetTransition(r, target),
       <<"vkCmdBeginRenderPass", r.scImageIndex, TargetPass(target),
         TargetFrameBuffer(r, target),
         IF target = ScreenTarget THEN r.surfaceSize ELSE TexExtent(target)>> >>

SetTargetFields(r, target) ==
    [r EXCEPT !.target = target,
              !.targetRenderPass = TargetPass(target),
              !.targetFrameBuffer = TargetFrameBuffer(r, target),
              !.targetImage = TargetImage(r, target),
              !.targetUBOSet = TargetUBOSet(r, target)]

\* Faulty variant: setTarget without the comparison with the active target.
SwitchesAlways(r, target) == TRUE

\* if (target != gRenderer->target)
SetTargetSwitches(r, target) == target # r.target

vk2dRendererSetTarget(target) ==
    /\ pc = "idle"
    /\ Callable(rd)
    /\ UNCHANGED <<dcVars, sys>>
    /\ IF ~Initialized(rd)
       THEN NotInitialized("vk2dRendererSetTarget", target)
       ELSE /\ IF SetTargetSwitches(rd, target)
               THEN /\ rd' = SetTargetFields(rd, target)
                    /\ gpu' = Recorded(Transitioned(gpu, rd, target),
                                        SetTargetCmds(rd, target))
                    /\ cmds' = SetTargetCmds(rd, target)
               ELSE /\ rd' = rd
                    /\ gpu' = gpu
                    /\ cmds' = Call("vk2dRendererSetTarget", target)
            /\ UNCHANGED <<env, pc>>

(***************************************************************************)
(* vk2dRendererSetConfig, vk2dRendererResetSwapchain: stage and request.   *)
(***************************************************************************)
\* Faulty variant: setConfig writing the active config as well.
StageAndApply(r, config) ==
    [r EXCEPT !.newConfig = [config EXCEPT !.msaa = ClampMSAA(config.msaa)],
              !.config = [config EXCEPT !.msaa = ClampMSAA(config.msaa)],
              !.resetSwapchain = TRUE]

StageConfig(r, config) ==
    [r EXCEPT !.newConfig = [config EXCEPT !.msaa = ClampMSAA(config.msaa)],
              !.resetSwapchain = TRUE]

vk2dRendererSetConfig(config) ==
    /\ pc = "idle"
    /\ Callable(rd)
    /\ UNCHANGED <<dcVars, sys>>
    /\ IF ~Initialized(rd)
       THEN NotInitialized("vk2dRendererSetConfig", 0)
       ELSE /\ rd' = StageConfig(rd, config)
            /\ cmds' = Call("vk2dRendererSetConfig", 0)
            /\ UNCHANGED <<gpu, env, pc>>

vk2dRendererResetSwapchain ==
    /\ pc = "idle"
    /\ Callable(rd)
    /\ UNCHANGED <<dcVars, sys>>
    /\ IF ~Initialized(rd)
       THEN NotInitialized("vk2dRendererResetSwapchain", 0)
       ELSE /\ rd' = [rd EXCEPT !.resetSwapchain = TRUE]
            /\ cmds' = Call("vk2dRendererResetSwapchain", 0)
            /\ UNCHANGED <<gpu, env, pc>>

(***************************************************************************)
(* The life of the singleton: vk2dRendererInit, vk2dRendererQuit, and the  *)
(* calls whose bodies write fields or record draws that are not part of    *)
(* rd.  Each is guarded by gRenderer != NULL.                              *)
(***************************************************************************)
\* gRenderer = NULL.
NoRenderer == [state |-> "none"]

\* vk2dRendererInit: -1 when calloc failed, 0 otherwise; the result of
\* vkCreateInstance is not looked at.
\* The subsystems in the order vk2dRendererInit creates them, and in the
\* order vk2dRendererQuit destroys them.
InitSubsystems ==
    <<"Debug", "WindowSurface", "Swapchain", "ColourResources", "RenderPass",
      "DescriptorSetLayouts", "Pipelines", "FrameBuffer", "DescriptorPool",
      "UniformBuffers", "Sampler", "Units", "Synchronization">>

\* A shutdown that tears the framebuffers and the swapchain down first.
QuitImagesFirst ==
    <<"FrameBuffer", "Swapchain", "Synchronization", "TargetsList", "Units",
      "Sampler", "DescriptorPool", "UniformBuffers", "Pipelines",
      "DescriptorSetLayouts", "RenderPass", "ColourResources", "WindowSurface",
      "Debug">>

QuitSubsystems ==
    <<"Synchronization", "TargetsList", "Units", "Sampler", "DescriptorPool",
      "UniformBuffers", "FrameBuffer", "Pipelines", "DescriptorSetLayouts",
      "RenderPass", "ColourResources", "Swapchain", "WindowSurface", "Debug">>

SubsystemCalls(kind, order) == [i \in 1 .. Len(order) |-> <<kind, order[i]>>]

vk2dRendererInit(config, callocOk, instanceOk) ==
    /\ pc = "idle"
    /\ rd.state = "none"
    /\ IF ~callocOk
       THEN /\ cmds' = Call("vk2dRendererInit", 0) \o << <<"return", -1>> >>
            /\ UNCHANGED <<rd, gpu>>
       ELSE /\ rd' = InitRenderer(config, env.windowSize, env.windowSize)
            /\ gpu' = CreateSynchronizationG(NoDevice)
            /\ cmds' = Call("vk2dRendererInit", 0)
                       \o (IF instanceOk THEN <<>>
                           ELSE << <<"vkCreateInstance", "VK_ERROR_INCOMPATIBLE_DRIVER">> >>)
                       \o SubsystemCalls("Create", InitSubsystems)
                       \o << <<"return", 0>> >>
    /\ UNCHANGED <<env, pc>>
    /\ UNCHANGED <<dcVars, sys>>

\* vk2dRendererQuit: nothing at all without a renderer.
vk2dRendererQuit ==
    /\ pc = "idle"
    /\ Callable(rd)
    /\ IF ~Initialized(rd)
       THEN /\ cmds' = Call("vk2dRendererQuit", 0)
            /\ UNCHANGED <<rd, gpu>>
       ELSE /\ rd' = NoRenderer
            /\ gpu' = NoDevice
            /\ cmds' = Call("vk2dRendererQuit", 0)
                       \o << <<"vkQueueWaitIdle">> >>
                       \o SubsystemCalls("Destroy", QuitSubsystems)
                       \o << <<"free", "gRenderer">>,
                             <<"vk2dLogMessage", "VK2D has been uninitialized.">> >>
    /\ UNCHANGED <<env, pc>>
    /\ UNCHANGED <<dcVars, sys>>

\* vk2dRendererWait: vkQueueWaitIdle returns when the device has completed
\* every submission.
vk2dRendererWait ==
    /\ pc = "idle"
    /\ Callable(rd)
    /\ IF ~Initialized(rd)
       THEN NotInitialized("vk2dRendererWait", 0)
       ELSE /\ gpu' = [gpu EXCEPT
                        !.queue = <<>>,
                        !.fenceSignaled =
                            [s \in Slots |->
                                @[s] \/ \E k \in 1 .. Len(gpu.queue) : gpu.queue[k].fence = s]]
            /\ cmds' = Call("vk2dRendererWait", 0) \o << <<"vkQueueWaitIdle">> >>
            /\ UNCHANGED <<rd, env, pc>>
    /\ UNCHANGED <<dcVars, sys>>

\* vk2dRendererGetPointer returns gRenderer, whatever it is.
vk2dRendererGetPointer ==
    /\ pc = "idle"
    /\ Callable(rd)
    /\ cmds' = Call("vk2dRendererGetPointer", 0)
               \o << <<"return", IF Initialized(rd) THEN "gRenderer" ELSE "NULL">> >>
    /\ UNCHANGED <<rd, gpu, env, pc>>
    /\ UNCHANGED <<dcVars, sys>>

\* The getters that return a value.
ValueGetters ==
    {"vk2dRendererGetConfig", "vk2dRendererGetDevice", "vk2dRendererGetBlendMode",
     "vk2dRendererGetCamera", "vk2dRendererGetAverageFrameTime"}

\* What a getter returns with a renderer ...
FieldValue(r, getter) ==
    CASE getter = "vk2dRendererGetConfig" -> r.config
      [] getter = "vk2dRendererGetDevice" -> "gRenderer->ld"
      [] getter = "vk2dRendererGetBlendMode" -> "gRenderer->blendMode"
      [] getter = "vk2dRendererGetCamera" -> r.defaultCameraSpec
      [] getter = "vk2dRendererGetAverageFrameTime" -> r.frameTimeAverage

\* ... and without one.
NullValue(getter) ==
    CASE getter = "vk2dRendererGetConfig" -> ZeroConfig
      [] getter = "vk2dRendererGetDevice" -> "NULL"
      [] getter = "vk2dRendererGetBlendMode" -> "bm_None"
      [] getter = "vk2dRendererGetCamera" -> ZeroCamera
      [] getter = "vk2dRendererGetAverageFrameTime" -> 0

vk2dRendererGet(getter) ==
    /\ pc = "idle"
    /\ Callable(rd)
    /\ cmds' = IF Initialized(rd)
               THEN Call(getter, 0) \o << <<"return", FieldValue(rd, getter)>> >>
               ELSE Reported(getter, 0) \o << <<"return", NullValue(getter)>> >>
    /\ UNCHANGED <<rd, gpu, env, pc>>
    /\ UNCHANGED <<dcVars, sys>>

\* The setters, the getters that write through pointers, and the draw calls.
\* With a renderer they write fields and record draws that rd does not hold;
\* without one they write nothing, not even the caller's output arguments.
OtherCalls ==
    {"vk2dRendererSetColourMod", "vk2dRendererGetColourMod", "vk2dRendererSetBlendMode",
     "vk2dRendererSetViewport", "vk2dRendererGetViewport",
     "vk2dRendererSetTextureCamera", "vk2dRendererLockCameras",
     "vk2dRendererUnlockCameras", "vk2dRendererClear", "vk2dRendererDrawRectangle",
     "vk2dRendererDrawRectangleOutline", "vk2dRendererDrawCircle",
     "vk2dRendererDrawCircleOutline", "vk2dRendererDrawLine", "vk2dRendererDrawShader",
     "vk2dRendererDrawTexture", "vk2dRendererDrawPolygon"}

vk2dRendererCall(op) ==
    /\ pc = "idle"
    /\ Callable(rd)
    /\ IF ~Initialized(rd)
       THEN NotInitialized(op, 0)
       ELSE /\ cmds' = Call(op, 0)
            /\ UNCHANGED <<rd, gpu, env, pc>>
    /\ UNCHANGED <<dcVars, sys>>

\* The cameras a caller installs.
Cameras ==
    {[x |-> 1, xOnScreen |-> 0, yOnScreen |-> 0, wOnScreen |-> 0, hOnScreen |-> 0],
     [x |-> 2, xOnScreen |-> 1, yOnScreen |-> 1, wOnScreen |-> 1, hOnScreen |-> 1]}

\* vk2dRendererSetCamera: the spec of the default camera becomes the one
\* given, with the whole surface as its rectangle on the screen.
vk2dRendererSetCamera(camera) ==
    /\ pc = "idle"
    /\ Callable(rd)
    /\ IF ~Initialized(rd)
       THEN NotInitialized("vk2dRendererSetCamera", camera)
       ELSE /\ rd' = [rd EXCEPT !.cameraSpec =
                         [camera EXCEPT !.wOnScreen = rd.surfaceSize[1],
                                        !.hOnScreen = rd.surfaceSize[2],
                                        !.xOnScreen = 0,
                                        !.yOnScreen = 0]]
            /\ cmds' = Call("vk2dRendererSetCamera", camera)
            /\ UNCHANGED <<gpu, env, pc>>
    /\ UNCHANGED <<dcVars, sys>>

(***************************************************************************)
(* The environment: the device completes a submission and signals its      *)
(* fence, at any time and in any order; the window is minimized, restored, *)
(* resized.                                                                *)
(***************************************************************************)
RemoveAt(q, k) == [j \in 1 .. (Len(q) - 1) |-> IF j < k THEN q[j] ELSE q[j + 1]]

GpuComplete(k) ==
    /\ k \in 1 .. Len(gpu.queue)
    /\ gpu' = [gpu EXCEPT !.fenceSignaled[gpu.queue[k].fence] = TRUE,
                          !.queue = RemoveAt(@, k)]
    /\ UNCHANGED <<rd, env, pc, cmds>>
    /\ UNCHANGED <<dcVars, sys>>

WindowMinimize ==
    /\ ~env.minimized
    /\ env' = [env EXCEPT !.minimized = TRUE]
    /\ UNCHANGED <<rd, gpu, pc, cmds>>
    /\ UNCHANGED <<dcVars, sys>>

WindowRestore ==
    /\ env.minimized
    /\ env' = [env EXCEPT !.minimized = FALSE]
    /\ UNCHANGED <<rd, gpu, pc, cmds>>
    /\ UNCHANGED <<dcVars, sys>>

WindowResize(size) ==
    /\ size # env.windowSize
    /\ env' = [env EXCEPT !.windowSize = size]
    /\ UNCHANGED <<rd, gpu, pc, cmds>>
    /\ UNCHANGED <<dcVars, sys>>

(***************************************************************************)
(* Specifications of the renderer.  All run the same operations; they      *)
(* differ in the inputs the environment is allowed to give.                *)
(*   Spec     every call of the frame cycle, target switches and staged    *)
(*            configurations, a device completing work at any time, any    *)
(*            acquire order;                                               *)
(*   SpecSync the frame cycle with failing submits and acquisitions and    *)
(*            rebuilds that change the number of images;                   *)
(*   SpecCfg  configuration changes, window events, presentation results;  *)
(*   SpecTarget  frames with switches between the screen and the textures; *)
(*   SpecLife the singleton from before its construction until after its   *)
(*            teardown.                                                    *)
(***************************************************************************)
\* Readings of SDL_GetPerformanceCounter at startFrame; milliseconds a frame takes.
StartTimes == {1, 2}
FrameMillis == 600

PresentResults == {"VK_SUCCESS", "VK_SUBOPTIMAL_KHR", "VK_ERROR_OUT_OF_DATE_KHR"}
AcquireOk == [ok : {TRUE}, index : Images]
AcquireAny == AcquireOk \cup {[ok |-> FALSE, index |-> 0]}

DescIdle ==
    /\ dc = NoController
    /\ build = "benign"
    /\ issued = {}
    /\ lastSet = NullSet
    /\ lastWrites = <<>>
    /\ dcHist = NoHist

DefaultConfig == [msaa |-> 1, screenMode |-> "FIFO", filterMode |-> "linear"]
TripleConfig == [msaa |-> 4, screenMode |-> "MAILBOX", filterMode |-> "linear"]

Init ==
    /\ DescIdle
    /\ RendererInit({DefaultConfig, TripleConfig}, {TRUE})

\* The images acquired are those every swapchain has.
Next ==
    \/ \E t \in StartTimes : vk2dRendererStartFrame(t)
    \/ \E acq \in [ok : {TRUE}, index : 0 .. MinImageCount - 1] :
            StartFrameAcquire(acq, FALSE)
    \/ StartFrameBegin
    \/ vk2dRendererEndFrame(TRUE, "VK_SUCCESS", "VK_SUCCESS", FrameMillis)
    \/ \E target \in {ScreenTarget, NumTextures} : vk2dRendererSetTarget(target)
    \/ \E config \in {DefaultConfig, TripleConfig} : vk2dRendererSetConfig(config)
    \/ vk2dRendererResetSwapchain
    \/ \E k \in 1 .. MaxFramesInFlight + 1 : GpuComplete(k)

Spec == Init /\ [][Next]_vars

ImmediateConfig == [msaa |-> 2, screenMode |-> "IMMEDIATE", filterMode |-> "nearest"]
CfgConfigs == {DefaultConfig, TripleConfig, ImmediateConfig}

InitCfg ==
    /\ DescIdle
    /\ RendererInit({DefaultConfig, TripleConfig}, BOOLEAN)

NextCfg ==
    \/ vk2dRendererStartFrame(1)
    \/ \E acq \in AcquireOk : StartFrameAcquire(acq, FALSE)
    \/ StartFrameBegin
    \/ \E result \in PresentResults, queueRes \in {"VK_SUCCESS", "VK_ERROR_OUT_OF_DATE_KHR"} :
            vk2dRendererEndFrame(TRUE, result, queueRes, FrameMillis)
    \/ EndFrameRebuild(FrameMillis)
    \/ \E config \in CfgConfigs : vk2dRendererSetConfig(config)
    \/ vk2dRendererResetSwapchain
    \/ GpuComplete(1)
    \/ WindowMinimize
    \/ WindowRestore
    \/ \E size \in WindowSizes : WindowResize(size)

SpecCfg == InitCfg /\ [][NextCfg]_vars

\* Frames on a window that is minimized and restored, with rebuilds on
\* request and on the presentation's results.
NextPoll ==
    \/ vk2dRendererStartFrame(1)
    \/ \E acq \in AcquireOk : StartFrameAcquire(acq, FALSE)
    \/ StartFrameBegin
    \/ \E result \in PresentResults, queueRes \in {"VK_SUCCESS", "VK_ERROR_OUT_OF_DATE_KHR"} :
            vk2dRendererEndFrame(TRUE, result, queueRes, FrameMillis)
    \/ EndFrameRebuild(FrameMillis)
    \/ vk2dRendererResetSwapchain
    \/ GpuComplete(1)
    \/ WindowMinimize
    \/ WindowRestore

\* The thread inside _vk2dRendererResetSwapchain keeps polling the window
\* flags: when the window stays restored, a poll sees it.
SpecPoll == InitCfg /\ [][NextPoll]_vars /\ WF_vars(EndFrameRebuild(FrameMillis))

NextSync ==
    \/ vk2dRendererStartFrame(1)
    \/ \E acq \in AcquireAny, crash \in BOOLEAN : StartFrameAcquire(acq, crash)
    \/ StartFrameBegin
    \/ \E submitOk \in BOOLEAN, result \in {"VK_SUCCESS", "VK_SUBOPTIMAL_KHR"} :
            vk2dRendererEndFrame(submitOk, result, "VK_SUCCESS", FrameMillis)
    \/ \E config \in {DefaultConfig, TripleConfig} : vk2dRendererSetConfig(config)
    \/ \E k \in 1 .. MaxFramesInFlight + 1 : GpuComplete(k)

SpecSync == Init /\ [][NextSync]_vars

\* Frames with switches between the screen and every texture.
NextTarget ==
    \/ vk2dRendererStartFrame(1)
    \/ StartFrameAcquire([ok |-> TRUE, index |-> 0], FALSE)
    \/ StartFrameBegin
    \/ vk2dRendererEndFrame(TRUE, "VK_SUCCESS", "VK_SUCCESS", FrameMillis)
    \/ \E target \in Targets : vk2dRendererSetTarget(target)
    \/ GpuComplete(1)

SpecTarget == Init /\ [][NextTarget]_vars

\* The singleton from before vk2dRendererInit until after vk2dRendererQuit.
InitLife ==
    /\ DescIdle
    /\ rd = NoRenderer
    /\ gpu = NoDevice
    /\ \E window \in WindowSizes : env = [minimized |-> FALSE, windowSize |-> window]
    /\ pc = "idle"
    /\ cmds = <<>>
    /\ sys = NoSys

NextLife ==
    \/ \E config \in {DefaultConfig}, callocOk, instanceOk \in BOOLEAN :
          vk2dRendererInit(config, callocOk, instanceOk)
    \/ vk2dRendererQuit
    \/ vk2dRendererStartFrame(1)
    \/ StartFrameAcquire([ok |-> TRUE, index |-> 0], FALSE)
    \/ StartFrameBegin
    \/ vk2dRendererEndFrame(TRUE, "VK_SUCCESS", "VK_SUCCESS", FrameMillis)
    \/ \E target \in {ScreenTarget, NumTextures} : vk2dRendererSetTarget(target)
    \/ vk2dRendererSetConfig(TripleConfig)
    \/ vk2dRendererResetSwapchain
    \/ vk2dRendererWait
    \/ vk2dRendererGetPointer
    \/ \E getter \in ValueGetters : vk2dRendererGet(getter)
    \/ \E op \in OtherCalls : vk2dRendererCall(op)
    \/ \E camera \in Cameras : vk2dRendererSetCamera(camera)
    \/ GpuComplete(1)

SpecLife == InitLife /\ [][NextLife]_vars

(***************************************************************************)
(*            The subsystems: construction, rebuild, teardown              *)
(*                                                                         *)
(* vk2dRendererInit creates the subsystems one after the other,            *)
(* _vk2dRendererResetSwapchain destroys and recreates those that depend on *)
(* the surface, vk2dRendererQuit destroys all of them.  sys holds what     *)
(* these functions read and write: which subsystems exist, the images and  *)
(* passes the later ones are built from, the caller's custom pipelines.    *)
(***************************************************************************)
\* Custom pipelines the caller has registered.
MaxCustomPipes == 2

\* The calls of vk2dRendererInit, in order.
InitOrder ==
    << "Debug", "WindowSurface", "Swapchain", "ColourResources",
       "DepthStencilImage", "RenderPass", "DescriptorSetLayout", "Pipelines",
       "FrameBuffer", "UniformBuffers", "DescriptorPool", "Sampler",
       "Synchronization" >>

\* The calls of vk2dRendererQuit, in order.
QuitOrder ==
    << "Synchronization", "Sampler", "DescriptorPool", "UniformBuffers",
       "FrameBuffer", "Pipelines", "DescriptorSetLayout", "RenderPass",
       "DepthStencilImage", "ColourResources", "Swapchain", "WindowSurface",
       "Debug" >>

\* Undefined behaviour (a read through a null or dangling pointer, a double
\* free): the build either goes on with whatever it read, or stops there.
Hit(s) ==
    [s EXCEPT !.ubHit = TRUE,
              !.state = IF s.ubMode = "crash" THEN "crashed" ELSE @]

\* The shaders and settings of the caller's i-th custom pipeline.
PipeInfo(i) == [vertBuffer |-> <<"vert", i>>, fragBuffer |-> <<"frag", i>>, fill |-> TRUE]

\* _vk2dRendererCreateColourResources: an image only with multisampling on.
CreateColourResources(s) ==
    [s EXCEPT !.msaaImage = IF s.config.msaa # 1 THEN "image" ELSE @]

\* _vk2dRendererDestroyColourResources
DestroyColourResources(s) == [s EXCEPT !.msaaImage = "NULL"]

\* _vk2dRendererCreateDepthStencilImage: the image only if a format is supported.
CreateDepthStencilImage(s) ==
    [s EXCEPT !.dsiAvailable = s.dsiOk,
              !.dsi = IF s.dsiOk THEN "image" ELSE @]

\* _vk2dRendererDestroyDepthStencilImage
DestroyDepthStencilImage(s) ==
    IF s.dsiAvailable
    THEN LET a == [s EXCEPT !.dsi = "freed"]
         IN  IF s.dsi = "image" THEN a ELSE Hit(a)
    ELSE s

\* _vk2dRendererCreateRenderPass: attachment 0 takes dsiFormat whatever it holds.
CreateRenderPass(s) ==
    [s EXCEPT !.renderPass =
        [state |-> "created", msaa |-> s.config.msaa,
         depthFormat |-> IF s.dsiAvailable THEN "dsiFormat" ELSE "VK_FORMAT_UNDEFINED"]]

\* _vk2dRendererDestroyRenderPass
DestroyRenderPass(s) == [s EXCEPT !.renderPass.state = "destroyed"]

\* _vk2dRendererCreatePipelines: the built-in pipelines, then one pipeline per
\* custom definition if there are definitions.  The custom pipelines are given
\* surfaceWidth for the width and for the height.
CreatePipelines(s) ==
    LET a == [s EXCEPT !.builtinPipes = [state |-> "created", pass |-> s.renderPass,
                                         size |-> s.surfaceSize]]
        b == [a EXCEPT !.customPipes =
                  [i \in 1 .. s.pipeCount |->
                      [state |-> "created", def |-> s.customPipeInfo.defs[i],
                       pass |-> s.renderPass,
                       size |-> <<s.surfaceSize[1], s.surfaceSize[1]>>]]]
    IN  IF s.customPipeInfo.null THEN a
        ELSE IF s.customPipeInfo.freed /\ s.pipeCount > 0 THEN Hit(b)
        ELSE b

\* _vk2dRendererDestroyPipelines(preserveCustomPipes)
DestroyPipelines(s, preserveCustomPipes) ==
    LET a == [s EXCEPT !.builtinPipes.state = "freed",
                       !.customPipes = [i \in 1 .. s.pipeCount |->
                                           [s.customPipes[i] EXCEPT !.state = "freed"]]]
        b == [a EXCEPT !.customPipeInfo.freed = ~s.customPipeInfo.null]
    IN  IF preserveCustomPipes THEN a
        ELSE IF s.customPipeInfo.freed /\ s.pipeCount > 0 THEN Hit(b)
        ELSE b

\* _vk2dRendererCreateFrameBuffer: reads dsi->view, and msaaImage->view with
\* multisampling on.
CreateFrameBuffer(s) ==
    LET a == [s EXCEPT !.framebuffers =
                  [state |-> "created", pass |-> s.renderPass, depth |-> s.dsi]]
    IN  IF s.dsi # "image" \/ (s.config.msaa > 1 /\ s.msaaImage # "image")
        THEN Hit(a)
        ELSE a

\* _vk2dRendererDestroyFrameBuffer
DestroyFrameBuffer(s) == [s EXCEPT !.framebuffers.state = "destroyed"]

\* One _vk2dRendererCreate... call.  Creating over an object that was not
\* destroyed loses it.
Create(s, name) ==
    LET a == [s EXCEPT !.alive = @ \cup {name},
                       !.leaked = @ \/ name \in s.alive,
                       !.log = Append(@, <<"Create", name>>)]
    IN  CASE name = "WindowSurface" ->
                 [a EXCEPT !.surfaceSize = GetSurfaceSize(ExtentUndefined, s.window)]
          [] name = "ColourResources" -> CreateColourResources(a)
          [] name = "DepthStencilImage" -> CreateDepthStencilImage(a)
          [] name = "RenderPass" -> CreateRenderPass(a)
          [] name = "Pipelines" -> CreatePipelines(a)
          [] name = "FrameBuffer" -> CreateFrameBuffer(a)
          [] OTHER -> a

\* One _vk2dRendererDestroy... call.  Destroying what does not exist is
\* undefined.
Destroy(s, name, preserveCustomPipes) ==
    LET a == [s EXCEPT !.alive = @ \ {name},
                       !.log = Append(@, <<"Destroy", name>>)]
        b == CASE name = "ColourResources" -> DestroyColourResources(a)
               [] name = "DepthStencilImage" -> DestroyDepthStencilImage(a)
               [] name = "RenderPass" -> DestroyRenderPass(a)
               [] name = "Pipelines" -> DestroyPipelines(a, preserveCustomPipes)
               [] name = "FrameBuffer" -> DestroyFrameBuffer(a)
               [] OTHER -> a
    IN  IF name \in s.alive THEN b ELSE Hit(b)

\* One statement of a sequence of calls; nothing runs after a crash.
Step(s, st, preserveCustomPipes) ==
    IF s.state = "crashed" THEN s
    ELSE CASE st[1] = "Create" -> Create(s, st[2])
           [] st[1] = "Destroy" -> Destroy(s, st[2], preserveCustomPipes)
           [] st[1] = "SwapConfig" ->
                 [s EXCEPT !.config = s.newConfig, !.log = Append(@, st)]
           [] st[1] = "GetSurfaceSize" ->
                 [s EXCEPT !.surfaceSize = GetSurfaceSize(ExtentUndefined, s.window),
                           !.log = Append(@, st)]
           [] OTHER -> [s EXCEPT !.log = Append(@, st)]

RECURSIVE Run(_, _, _)
Run(s, steps, preserveCustomPipes) ==
    IF steps = <<>> THEN s
    ELSE Run(Step(s, Head(steps), preserveCustomPipes), Tail(steps), preserveCustomPipes)

Creates(order) == [i \in 1 .. Len(order) |-> <<"Create", order[i]>>]
Destroys(order) == [i \in 1 .. Len(order) |-> <<"Destroy", order[i]>>]

\* Faulty variants: a rebuild that frees the custom definitions as teardown
\* does; a rebuild that recreates the pipelines before the render pass.
RebuildFrees == FALSE
RebuildLogSwapped ==
    [i \in 1 .. Len(RebuildLog) |->
        IF RebuildLog[i] = <<"Create", "RenderPass">> THEN <<"Create", "Pipelines">>
        ELSE IF RebuildLog[i] = <<"Create", "Pipelines">> THEN <<"Create", "RenderPass">>
        ELSE RebuildLog[i]]

\* _vk2dRendererDestroyPipelines(true) in the rebuild.
RebuildPreserves == TRUE

\* The statements of _vk2dRendererResetSwapchain.
RebuildSteps == RebuildLog

\* _vk2dRendererResetSwapchain on the subsystems.
ResetSwapchainSys(s) == Run([s EXCEPT !.log = <<>>], RebuildSteps, RebuildPreserves)

\* vk2dRendererInit(window, config): calloc, the config, the subsystems.  The
\* surface reports no extent of its own: its size is the window's drawable size.
SysInit(config, dsiOk, ubMode, window) ==
    /\ sys.state = "none"
    /\ sys' = Run([NoSys EXCEPT !.state = "live", !.ubMode = ubMode, !.dsiOk = dsiOk,
                                !.window = window,
                                !.config = [config EXCEPT !.msaa = ClampMSAA(config.msaa)],
                                !.newConfig = [config EXCEPT !.msaa = ClampMSAA(config.msaa)]],
                  Creates(InitOrder), FALSE)
    /\ UNCHANGED <<dcVars, rVars>>

\* The caller registers n custom pipelines: the definitions are stored and a
\* pipeline is built for each against the render pass.
AddCustomPipes(n) ==
    /\ sys.state = "live"
    /\ sys.customPipeInfo.null
    /\ sys' = [sys EXCEPT
                !.pipeCount = n,
                !.customPipeInfo = [null |-> FALSE, freed |-> FALSE,
                                    defs |-> [i \in 1 .. n |-> PipeInfo(i)]],
                !.customPipes = [i \in 1 .. n |->
                                    [state |-> "created", def |-> PipeInfo(i),
                                     pass |-> sys.renderPass,
                                     size |-> sys.surfaceSize]],
                !.log = <<>>]
    /\ UNCHANGED <<dcVars, rVars>>

\* vk2dRendererSetConfig stages the config as given.
SysSetConfig(config) ==
    /\ sys.state = "live"
    /\ sys' = [sys EXCEPT !.newConfig = config, !.log = <<>>]
    /\ UNCHANGED <<dcVars, rVars>>

\* The rebuild an endFrame runs, the window having the given drawable size.
SysResetSwapchain(window) ==
    /\ sys.state = "live"
    /\ sys' = ResetSwapchainSys([sys EXCEPT !.window = window])
    /\ UNCHANGED <<dcVars, rVars>>

\* vk2dRendererQuit: every subsystem destroyed, the singleton freed.
SysQuit ==
    /\ sys.state = "live"
    /\ LET s == Run([sys EXCEPT !.log = <<>>],
                    << <<"vkQueueWaitIdle">> >> \o Destroys(QuitOrder), FALSE)
       IN  sys' = IF s.state = "crashed" THEN s
                  ELSE [NoSys EXCEPT !.ubHit = s.ubHit, !.leaked = s.leaked,
                                     !.ubMode = s.ubMode, !.log = s.log]
    /\ UNCHANGED <<dcVars, rVars>>

SysConfigs == CfgConfigs

InitSys == DescIdle /\ RendererIdle

NextSys ==
    \/ \E config \in SysConfigs, dsiOk \in BOOLEAN, ubMode \in {"benign", "crash"},
          window \in WindowSizes :
          SysInit(config, dsiOk, ubMode, window)
    \/ \E n \in 1 .. MaxCustomPipes : AddCustomPipes(n)
    \/ \E config \in SysConfigs : SysSetConfig(config)
    \/ \E window \in WindowSizes : SysResetSwapchain(window)
    \/ SysQuit

SpecSys == InitSys /\ [][NextSys]_vars

(***************************************************************************)
(*                    Properties of the frame cycle                        *)
(***************************************************************************)
\* A frame is being recorded: startFrame has returned, endFrame has not run.
Recording == rd.procedStartFrame /\ pc = "idle"

\* Frames in flight on image i: submitted and not completed, or being recorded.
InFlightOn(i) ==
    Cardinality({k \in 1 .. Len(gpu.queue) : gpu.queue[k].image = i})
    + (IF Recording /\ rd.scImageIndex = i THEN 1 ELSE 0)

\* Submissions of slot s the device has not completed.
PendingOn(s) == Cardinality({k \in 1 .. Len(gpu.queue) : gpu.queue[k].fence = s})

Issued(name) == Cardinality({k \in 1 .. Len(cmds) : cmds[k][1] = name})

\* C3: no two frames in flight at the same time target the same swapchain
\* image; the frame being recorded is its image's last user, and every
\* submission the device still holds on an image was made with the fence
\* recorded for that image, which is then unsignaled.
C3_NoTwoFramesOnOneImage ==
    rd.state = "live" =>
        /\ \A i \in Images : InFlightOn(i) <= 1
        /\ Recording => rd.imagesInFlight[rd.scImageIndex] = rd.currentFrame
        /\ \A k \in 1 .. Len(gpu.queue) :
              /\ rd.imagesInFlight[gpu.queue[k].image] = gpu.queue[k].fence
              /\ ~gpu.fenceSignaled[gpu.queue[k].fence]

\* startFrame is held back on the acquired image, one of three: the frame of
\* the other slot is in flight on it.
C3_Witness ==
    /\ pc = "startFrame:imageFence"
    /\ ~ImageFenceObserved(rd, gpu)
    /\ rd.swapchainImageCount = MinImageCount + 1
    /\ InFlightOn(rd.scImageIndex) = 1
    /\ rd.imagesInFlight[rd.scImageIndex] # rd.currentFrame

\* C4: a frame slot has at most one submission the device has not completed,
\* none while its fence is signaled, and a call submits at most once.
C4_OneSubmissionPerSlot ==
    /\ \A s \in Slots : PendingOn(s) <= 1 /\ (gpu.fenceSignaled[s] => PendingOn(s) = 0)
    /\ Issued("vkQueueSubmit") <= 1
    /\ Issued("vkQueueSubmit") = Issued("vkResetFences")

\* startFrame is held back on its slot: every slot has a submission pending.
C4_Witness ==
    /\ pc = "startFrame:slotFence"
    /\ ~SlotFenceObserved(rd, gpu)
    /\ \A s \in Slots : PendingOn(s) = 1

\* A step of the call, for some time the counter reads.
StartFrameStep == \E t \in StartTimes : vk2dRendererStartFrame(t)
SetTargetStep(x) == vk2dRendererSetTarget(x)

\* C5: startFrame called while a frame is active changes nothing and issues
\* no driver call (no fence wait, no acquisition), and a frame becomes active
\* in a startFrame step only.
C5_StartFrameIdempotent ==
    [][/\ (StartFrameStep /\ rd.procedStartFrame) =>
             /\ UNCHANGED <<rd, gpu, env, pc>>
             /\ cmds' = Call("vk2dRendererStartFrame", 0)
       /\ (~rd.procedStartFrame /\ rd'.procedStartFrame) => StartFrameStep]_vars

\* The second startFrame of a frame has returned: the frame is still being
\* recorded on the image of the first, after a target switch in between.
C5_Witness ==
    /\ Recording
    /\ cmds = Call("vk2dRendererStartFrame", 0)
    /\ rd.target \in Textures
    /\ rd.previousTime = 2
    /\ rd.imagesInFlight[rd.scImageIndex] = rd.currentFrame

\* C6: endFrame called while no frame is active changes nothing and issues no
\* driver call; a requested rebuild stays requested.
C6_EndFrameWithoutFrame ==
    [][(vk2dRendererEndFrame(TRUE, "VK_SUCCESS", "VK_SUCCESS", FrameMillis) /\ ~rd.procedStartFrame) =>
          /\ UNCHANGED <<rd, gpu, env, pc>>
          /\ cmds' = Call("vk2dRendererEndFrame", 0)]_vars

\* endFrame has returned with no frame active, a rebuild requested and a
\* submission still pending.
C6_Witness ==
    /\ pc = "idle" /\ ~rd.procedStartFrame
    /\ cmds = Call("vk2dRendererEndFrame", 0)
    /\ rd.resetSwapchain /\ rd.newConfig # rd.config
    /\ Len(gpu.queue) > 0
    /\ rd.currentFrame = 1 /\ rd.amountOfFrames = 1

\* C7: setTarget(X) while X is the active target issues no command and leaves
\* the target state as it is; a setTarget that switches issues one end of the
\* render pass, one layout transition and one begin.
C7_SetTargetTwice ==
    [][(pc = "idle" /\ cmds' # <<>> /\ Head(cmds')[2] = "vk2dRendererSetTarget") =>
       \A x \in Targets :
          /\ (SetTargetStep(x) /\ rd.target = x) =>
                /\ rd' = rd
                /\ cmds' = Call("vk2dRendererSetTarget", x)
          /\ (SetTargetStep(x) /\ rd.target # x) =>
                /\ rd'.target = x
                /\ Issued("vkCmdEndRenderPass")' = 1
                /\ Issued("_vk2dTransitionImageLayout")' = 1
                /\ Issued("vkCmdBeginRenderPass")' = 1]_vars

\* The second setTarget(X) of a frame has returned, X a texture.
C7_Witness ==
    /\ Recording
    /\ rd.target \in Textures
    /\ cmds = Call("vk2dRendererSetTarget", rd.target)
    /\ rd.targetFrameBuffer = <<"fbo", rd.target>>

\* C8: setTarget called while no frame is active records no command and
\* leaves the target state unchanged.
C8_SetTargetWithoutFrame ==
    [][\A x \in Targets :
          (SetTargetStep(x) /\ ~rd.procedStartFrame) =>
              /\ rd' = rd
              /\ cmds' = Call("vk2dRendererSetTarget", x)]_vars

(***************************************************************************)
(*                  Properties of the staged configuration                 *)
(***************************************************************************)
\* An endFrame that ended an active frame returns, at once or after it was
\* held back by a minimized window.
EndFrameReturns ==
    /\ rd.procedStartFrame \/ pc = "endFrame:minimized"
    /\ pc' = "idle"
    /\ ~rd'.procedStartFrame

\* What a rebuild makes of a staged config: an unsupported present mode is
\* replaced by FIFO.
Installed(config) == [config EXCEPT !.screenMode = GetPresentMode(@)]

\* C9: the active config and the surface size change only in the step in which
\* an endFrame that ended an active frame returns, after its submit and
\* present, in the rebuild; never in setConfig nor while the frame stays active.
C9_ConfigChangesInRebuildOnly ==
    [][(rd'.config # rd.config \/ rd'.surfaceSize # rd.surfaceSize) =>
          /\ EndFrameReturns
          /\ cmds' = EndFrameCmds(rd) \o RebuildLog]_vars

\* setConfig has returned in the middle of a frame: the staged config differs
\* from the active one, which the frame goes on using.
C9_Witness ==
    /\ Recording
    /\ cmds = Call("vk2dRendererSetConfig", 0)
    /\ rd.resetSwapchain
    /\ rd.newConfig.msaa # rd.config.msaa
    /\ rd.newConfig.screenMode # rd.config.screenMode

\* C10 as stated: the endFrame that ends the first active frame after a
\* setConfig leaves the active config equal to the staged one.
C10_StagedConfigInstalled ==
    [][(EndFrameReturns /\ rd.resetSwapchain) =>
          /\ rd'.config = rd.newConfig
          /\ ~rd'.resetSwapchain]_vars

\* C10 amended: that endFrame leaves the active config equal to the staged
\* one with its present mode replaced by FIFO when the surface does not
\* support it (the multisample level was clamped when it was staged), and
\* the request is cleared; until then the active config is the one the last
\* rebuild installed.
C10_StagedConfigInstalledAsSupported ==
    [][/\ (EndFrameReturns /\ rd.resetSwapchain) =>
            /\ rd'.config = Installed(rd.newConfig)
            /\ rd'.config.msaa <= DeviceMaxMSAA
            /\ ~rd'.resetSwapchain
       /\ ~EndFrameReturns => rd'.config = rd.config]_vars

\* A staged config with an unsupported present mode and a multisample level
\* above no limit has been installed by an endFrame.
C10_Witness ==
    /\ pc = "idle" /\ ~rd.procedStartFrame /\ ~rd.resetSwapchain
    /\ Issued("vkQueuePresentKHR") = 1 /\ Issued("SwapConfig") = 1
    /\ rd.newConfig = [ImmediateConfig EXCEPT !.msaa = ClampMSAA(@)]
    /\ rd.config = [rd.newConfig EXCEPT !.screenMode = "FIFO"]

(***************************************************************************)
(*                     Properties of the subsystems                        *)
(***************************************************************************)
\* The step is a run of _vk2dRendererResetSwapchain that reached its end.
IsRebuildStep ==
    /\ sys.state = "live"
    /\ sys'.state = "live"
    /\ sys'.log # <<>>
    /\ Head(sys'.log) = <<"vkDeviceWaitIdle">>

\* The subsystems as the rebuild leaves them once it has destroyed them all.
AfterTeardown(s) ==
    Run([s EXCEPT !.log = <<>>],
        SelectSeq(RebuildSteps, LAMBDA st : st[1] \in {"vkDeviceWaitIdle", "Destroy"}),
        RebuildPreserves)

\* C11: a rebuild keeps the count and the definitions of the custom pipelines
\* as they were (nothing of them freed), frees every pipeline object built
\* from them, and leaves exactly one pipeline per definition, created in this
\* rebuild against the render pass this rebuild created.
C11_RebuildKeepsCustomPipes ==
    [][IsRebuildStep =>
          /\ sys'.pipeCount = sys.pipeCount
          /\ sys'.customPipeInfo = sys.customPipeInfo
          /\ ~sys'.customPipeInfo.freed
          /\ Len(sys'.customPipes) = sys.pipeCount
          /\ sys'.renderPass.state = "created"
          /\ sys'.renderPass.msaa = sys.newConfig.msaa
          /\ \A i \in 1 .. sys.pipeCount :
                /\ AfterTeardown(sys).customPipes[i].state = "freed"
                /\ sys'.customPipes[i].state = "created"
                /\ sys'.customPipes[i].def = sys.customPipeInfo.defs[i]
                /\ sys'.customPipes[i].pass = sys'.renderPass]_vars

\* A rebuild to a new multisampling level has run with custom pipelines registered.
C11_Witness ==
    /\ sys.state = "live"
    /\ sys.log # <<>>
    /\ Head(sys.log) = <<"vkDeviceWaitIdle">>
    /\ sys.pipeCount = MaxCustomPipes
    /\ sys.renderPass.msaa = 4
    /\ sys.customPipes[MaxCustomPipes].pass.msaa = 4

Reverse(q) == [i \in 1 .. Len(q) |-> q[Len(q) + 1 - i]]
NamesOf(log, kind) ==
    LET sel == SelectSeq(log, LAMBDA st : st[1] = kind)
    IN  [i \in 1 .. Len(sel) |-> sel[i][2]]
Positions(log, kind) == {i \in 1 .. Len(log) : log[i][1] = kind}
Restrict(order, names) == SelectSeq(order, LAMBDA x : x \in names)

\* The log of a rebuild that reached its end.
RebuildDone ==
    /\ sys.state = "live"
    /\ sys.log # <<>>
    /\ Head(sys.log) = <<"vkDeviceWaitIdle">>

C18_DepthImageNeverUsed ==
    (sys.state # "none" /\ ~sys.dsiOk) => ~sys.ubHit

(***************************************************************************)
(*                 Properties of the renderer's calls                      *)
(***************************************************************************)
Rebuilds(log) == Cardinality({k \in 1 .. Len(log) : log[k] = <<"SwapConfig">>})

\* C13: an endFrame that ends an active frame runs the rebuild if and only if
\* the presentation reported out-of-date or suboptimal or a reset had been
\* requested; it runs it before it returns (held back while the window is
\* minimized), at most once, and the request flag is false when it returns.
\* For each pair of results: the step has that outcome, or it is not an
\* endFrame that got these results.
C13_RebuildIffRequested ==
    [][/\ \A result \in PresentResults, queueRes \in {"VK_SUCCESS", "VK_ERROR_OUT_OF_DATE_KHR"} :
             (rd.procedStartFrame /\ pc = "idle" /\ ~rd'.procedStartFrame) =>
                 \/ /\ (Rebuilds(cmds') = 1 \/ pc' = "endFrame:minimized")
                           <=> \/ result \in {"VK_ERROR_OUT_OF_DATE_KHR", "VK_SUBOPTIMAL_KHR"}
                               \/ queueRes = "VK_ERROR_OUT_OF_DATE_KHR"
                               \/ rd.resetSwapchain
                    /\ Rebuilds(cmds') <= 1
                    /\ pc' = "endFrame:minimized" => Rebuilds(cmds') = 0
                 \/ ~vk2dRendererEndFrame(TRUE, result, queueRes, FrameMillis)
       /\ EndFrameRebuild(FrameMillis) => Rebuilds(cmds') = 1
       /\ EndFrameReturns => ~rd'.resetSwapchain]_vars

\* An endFrame has returned without a rebuild, after an earlier one rebuilt on
\* request: the active config is one that only vk2dRendererSetConfig brings.
C13_Witness ==
    /\ pc = "idle"
    /\ cmds # <<>> /\ Head(cmds) = Head(Call("vk2dRendererEndFrame", 0))
    /\ Issued("vkQueuePresentKHR") = 1
    /\ Rebuilds(cmds) = 0
    /\ ~rd.resetSwapchain
    /\ rd.config # DefaultConfig /\ rd.config # [TripleConfig EXCEPT !.msaa = ClampMSAA(@)]

\* The step is a call other than vk2dRendererInit made with a null singleton.
NullCall ==
    /\ ~Initialized(rd)
    /\ cmds' # cmds
    /\ Head(cmds')[2] # "vk2dRendererInit"

\* The call left the singleton null and the device alone, and issued nothing
\* but log messages and its return value.
NothingDone ==
    /\ rd' = rd
    /\ gpu' = gpu
    /\ \A k \in 2 .. Len(cmds') : cmds'[k][1] \in {"vk2dLogMessage", "return"}

WasReported ==
    \E k \in 2 .. Len(cmds') :
        /\ cmds'[k][1] = "vk2dLogMessage"
        /\ cmds'[k][2] = "Renderer is not initialized"

ReturnedNeutral ==
    /\ cmds'[Len(cmds')][1] = "return"
    /\ cmds'[Len(cmds')][2] = NullValue(Head(cmds')[2])

C15_InitFailureReported ==
    (cmds # <<>> /\ Head(cmds)[2] = "vk2dRendererInit" /\ Issued("vkCreateInstance") = 1)
        => (~Initialized(rd) /\ cmds[Len(cmds)][2] # 0)

(***************************************************************************)
(*          Properties of the descriptor controller's creation             *)
(***************************************************************************)
\* C16: vk2dDescConCreate returns null when the creation of the first pool
\* fails; a controller it returned has at least one pool in use, and every
\* slot below poolsInUse holds a pool that was created.
C16_ControllerHasCreatedPools ==
    dc.state = "live" =>
        /\ dc.poolsInUse >= 1
        /\ Len(dc.pools) = dc.poolsInUse
        /\ \A k \in 1 .. Len(dc.pools) : dc.pools[k].created

(***************************************************************************)
(*           Properties of the per-image descriptor controllers            *)
(***************************************************************************)
ResetsOf(log, i) ==
    {k \in 1 .. Len(log) : log[k][1] = "vk2dDescConReset" /\ log[k][3] = i}

TransitionsOf(log, image) ==
    {k \in 1 .. Len(log) : log[k][1] = "_vk2dTransitionImageLayout" /\ log[k][4] = image}

\* C19: a setTarget to another target in an active frame ends the render
\* pass, transitions the layout of the image it leaves and of the image it
\* enters, and then begins a render pass.
C19_BothImagesTransitioned ==
    [][\A target \in Targets :
          (rd.procedStartFrame /\ target # rd.target /\ vk2dRendererSetTarget(target)) =>
              /\ cmds'[2][1] = "vkCmdEndRenderPass"
              /\ cmds'[Len(cmds')][1] = "vkCmdBeginRenderPass"
              /\ TransitionsOf(cmds', rd.targetImage) # {}
              /\ TransitionsOf(cmds', rd'.targetImage) # {}]_vars

\* C20: a texture's image is a colour attachment exactly while the texture is
\* the target of the frame being recorded, and readable by shaders otherwise.
C20_LayoutFollowsTarget ==
    rd.state = "live" =>
        \A k \in Textures :
            gpu.texLayout[k] = "COLOR_ATTACHMENT_OPTIMAL" <=> (Recording /\ rd.target = k)

(***************************************************************************)
(*                 Properties of the target state                          *)
(***************************************************************************)
\* target, targetRenderPass, targetFrameBuffer, targetImage.
TargetState(r) == <<r.target, r.targetRenderPass, r.targetFrameBuffer, r.targetImage>>

\* The render pass open in the command buffer of the acquired image.
OpenPass == gpu.commandBuffer[rd.scImageIndex].pass

\* C21: while a frame is active the target state is the one of the last
\* effective selection: the screen with the default pass over the acquired
\* image after startFrame, the screen with the mid-frame-swap pass after a
\* setTarget back to the screen, texture T with the external-target pass over
\* T's framebuffer and image after a setTarget to T; nothing else changes it,
\* and the pass open is targetRenderPass over targetFrameBuffer.
C21_TargetStateFollowsSelection ==
    [][Recording' =>
          LET i == rd'.scImageIndex
              screen(pass) == <<ScreenTarget, pass, <<"framebuffers", i>>,
                                <<"swapchainImages", i>> >>
          IN  /\ IF StartFrameBegin
                 THEN TargetState(rd') = screen("renderPass")
                 ELSE IF SetTargetStep(ScreenTarget) /\ rd.target # ScreenTarget
                 THEN TargetState(rd') = screen("midFrameSwapRenderPass")
                 ELSE IF \E x \in Textures : SetTargetStep(x) /\ rd.target # x
                 THEN \E x \in Textures :
                         /\ SetTargetStep(x)
                         /\ TargetState(rd') = <<x, "externalTargetRenderPass",
                                                 <<"fbo", x>>, <<"img", x>> >>
                 ELSE TargetState(rd') = TargetState(rd)
              /\ OpenPass' = <<rd'.targetRenderPass, rd'.targetFrameBuffer>>]_vars

\* A frame that went to a texture and came back to the screen: the mid-frame-swap
\* pass is open over the framebuffer of the acquired image.
C21_Witness ==
    /\ Recording
    /\ rd.target = ScreenTarget
    /\ OpenPass = <<"midFrameSwapRenderPass", <<"framebuffers", rd.scImageIndex>> >>
    /\ Head(cmds) = <<"call", "vk2dRendererSetTarget", ScreenTarget>>
    /\ Issued("vkCmdBeginRenderPass") = 1

\* C22: for every interleaving of startFrame, setTarget and endFrame the
\* begins and ends of render passes are balanced: a pass is open in a command
\* buffer exactly when a frame is active on its image, and no command is
\* recorded into a buffer where the buffer's state does not allow it (an end
\* without an open pass, a begin over an open pass, a command outside the
\* begin and end of the command buffer).
C22_RenderPassBalanced ==
    \A i \in Images :
        /\ gpu.commandBuffer[i].state # "invalid"
        /\ gpu.commandBuffer[i].pass # <<"null", NullHandle>>
              <=> (Recording /\ i = rd.scImageIndex)

(***************************************************************************)
(*                 Properties of the frame ring                            *)
(***************************************************************************)
\* The call has issued this driver call.
Has(log, entry) ==
    \E k \in 1 .. Len(log) : log[k][1] = entry[1] /\ log[k] = entry

\* C23: currentFrame stays in [0, VK2D_MAX_FRAMES_IN_FLIGHT); an endFrame that
\* ends an active frame advances it by one modulo the ring size, with or
\* without a rebuild, and no other step changes it; the fence and semaphores
\* the submission and the presentation use are those of the slot startFrame
\* waited on and made the image's last user.
C23_SlotAdvancesPerFrame ==
    [][/\ rd'.currentFrame \in Slots
       /\ rd'.currentFrame = IF EndFrameReturns
                             THEN (rd.currentFrame + 1) % MaxFramesInFlight
                             ELSE rd.currentFrame
       /\ (pc = "startFrame:slotFence" /\ pc' # pc) =>
             /\ Has(cmds', <<"vkWaitForFences", rd.currentFrame>>)
             /\ \E res \in {"VK_SUCCESS", "VK_ERROR_OUT_OF_DATE_KHR"} :
                   Has(cmds', <<"vkAcquireNextImageKHR", rd.currentFrame, res>>)
       /\ (Recording' /\ rd'.state = "live") =>
             rd'.imagesInFlight[rd'.scImageIndex] = rd'.currentFrame
       /\ (Recording /\ ~rd'.procedStartFrame) =>
             LET s == rd.imagesInFlight[rd.scImageIndex]
                 i == rd.scImageIndex
             IN  /\ Has(cmds', <<"vkResetFences", s>>)
                 /\ Has(cmds', <<"vkQueueSubmit", i, s>>)
                 /\ Has(cmds', <<"vkQueuePresentKHR", i, s>>)
                 /\ Issued("vkQueueSubmit")' = 1
                 /\ ~gpu'.fenceSignaled[s] \/ Rebuilds(cmds') = 1]_vars

\* The second endFrame has returned, after a rebuild: the ring is back at slot 0.
C23_Witness ==
    /\ pc = "idle"
    /\ Rebuilds(cmds) = 1
    /\ Head(cmds) = <<"call", "vk2dRendererEndFrame", 0>>
    /\ rd.currentFrame = 0
    /\ rd.frameTimeAverage = FrameMillis

\* C24: no slot fence, and no fence an imagesInFlight entry names, is left
\* unsignaled without a pending submission that will signal it, so that a
\* startFrame waiting on it returns once the device has completed the
\* submissions it accepted; this includes the runs where vkQueueSubmit fails
\* after the slot's fence was reset, and the runs with a rebuild.
C24_NoFenceLeftUnsignaled ==
    rd.state = "live" =>
        /\ \A s \in Slots : ~gpu.fenceSignaled[s] => PendingOn(s) >= 1
        /\ \A i \in Images :
              rd.imagesInFlight[i] # NullFence =>
                  \/ gpu.fenceSignaled[rd.imagesInFlight[i]]
                  \/ PendingOn(rd.imagesInFlight[i]) >= 1

\* C25: a failure of a driver call of the frame path ends the call at once:
\* when vkAcquireNextImageKHR fails, startFrame returns with no frame active,
\* no image's last-user fence updated and no command buffer reset or recorded.
C25_FailedAcquisitionAborts ==
    [][(/\ pc = "startFrame:slotFence"
        /\ pc' # pc
        /\ \E s \in Slots :
              Has(cmds', <<"vkAcquireNextImageKHR", s, "VK_ERROR_OUT_OF_DATE_KHR">>)) =>
           /\ pc' = "idle"
           /\ ~rd'.procedStartFrame
           /\ rd'.scImageIndex = rd.scImageIndex
           /\ rd'.imagesInFlight = rd.imagesInFlight
           /\ gpu'.commandBuffer = gpu.commandBuffer]_vars

(***************************************************************************)
(*           Further claims about the descriptor pool controller           *)
(***************************************************************************)
\* Pool k (from 0) of controller d answers out-of-pool-memory.
Exhausted(d, k) == d.pools[k + 1].created /\ d.pools[k + 1].used >= d.pools[k + 1].cap

\* An acquisition step, by any getter.
IsGetStep == dc.state = "live" /\ dcHist'.acq = dcHist.acq + 1

\* C26: an acquisition appends a pool only when every existing pool, tried in
\* order from index 0, reported out-of-pool-memory, and not when the device
\* reported another error; no other step on a live controller appends one;
\* the set returned comes from the lowest-indexed pool that has a free set.
C26_AppendOnlyWhenAllExhausted ==
    [][dc.state = "live" =>
          /\ dc'.poolsInUse > dc.poolsInUse =>
                /\ IsGetStep
                /\ \A k \in 0 .. dc.poolsInUse - 1 : Exhausted(dc, k)
                /\ \A getter \in Getters, o \in Oracles(dc) :
                      vk2dDescConGet(getter, o) => o.errAt \notin 0 .. dc.poolsInUse - 1
          /\ (IsGetStep /\ lastSet' # NullSet) =>
                LET i == lastSet'[1]
                IN  /\ \A k \in 0 .. i - 1 : Exhausted(dc, k)
                    /\ i < dc.poolsInUse =>
                          /\ ~Exhausted(dc, i)
                          /\ lastSet'[2] = dc.pools[i + 1].used
                    /\ i >= dc.poolsInUse =>
                          /\ i = dc.poolsInUse
                          /\ lastSet'[2] = 0]_vars

\* The first pool has been used up: the acquisition appended a second pool
\* and took its first set.
C26_Witness ==
    /\ dc.state = "live" /\ DescDefined /\ ~dc.devErr
    /\ dc.poolsInUse = 2
    /\ dcHist.acq = PoolCapacity + 1
    /\ lastSet = <<1, 0>>
    /\ dc.pools[1].used = PoolCapacity /\ dc.pools[2].used = 1

\* C27: after every operation poolsInUse <= poolListSize and every pool
\* handle lies at an index below poolListSize, also when the realloc that
\* grows the list fails.
C27_PoolsWithinList ==
    /\ dc.poolsInUse <= dc.poolListSize
    /\ Len(dc.pools) <= dc.poolListSize

\* C28: whatever kinds are enabled, a pool is created with one pool-size
\* entry per enabled kind and none for a disabled kind, and the entries
\* written never outnumber the elements of the local array sizes[].
C28_PoolSizesFitArray ==
    Len(dc.pools) > 0 =>
        LET sizes == PoolSizes(dc)
        IN  /\ {sizes[k] : k \in 1 .. Len(sizes)} = dc.kinds
            /\ Len(sizes) = Cardinality(dc.kinds)
            /\ Len(sizes) <= SizesCapacity

\* An acquisition step in which vkAllocateDescriptorSets answered with an
\* error other than exhaustion.
ErrorStep == IsGetStep /\ dcHist'.res = "error"

\* C29: when the allocation fails with an error other than pool exhaustion
\* the routine reports it, stops at once and returns the null set, and pools,
\* poolsInUse and poolListSize are what they were before the call.
C29_ErrorLeavesControllerUnchanged ==
    [][ErrorStep =>
          /\ dc'.devErr
          /\ lastSet' = NullSet
          /\ dc'.pools = dc.pools
          /\ dc'.poolsInUse = dc.poolsInUse
          /\ dc'.poolListSize = dc.poolListSize]_vars

\* C29 as the code has it: the error is reported, the null set is returned
\* and nothing is appended or taken after the error; the controller is
\* unchanged when an existing pool failed, and has the one pool more that
\* the call had appended before when the failure is of that new pool.
C29_ErrorStopsTheLoop ==
    [][ErrorStep =>
          /\ dc'.devErr
          /\ lastSet' = NullSet
          /\ SubSeq(dc'.pools, 1, Len(dc.pools)) = dc.pools
          /\ IF \E k \in 0 .. dc.poolsInUse - 1 : ~Exhausted(dc, k)
             THEN /\ dc'.pools = dc.pools
                  /\ dc'.poolsInUse = dc.poolsInUse
                  /\ dc'.poolListSize = dc.poolListSize
             ELSE /\ Len(dc'.pools) <= Len(dc.pools) + 1
                  /\ dc'.poolsInUse = Len(dc'.pools)
                  /\ dc'.poolsInUse > dc.poolsInUse =>
                        dc'.pools[Len(dc'.pools)].used = 0]_vars

\* The second pool failed with the first exhausted: the null set came back
\* and both pools are as they were.
C29_Witness ==
    /\ dc.state = "live" /\ DescDefined /\ dc.devErr
    /\ lastSet = NullSet
    /\ dc.poolsInUse = 2
    /\ dc.pools[1].used = PoolCapacity /\ dc.pools[2].used = 1
    /\ dcHist.acq = PoolCapacity + 2

\* C30: the descriptor update of a bound getter writes into the set the call
\* acquired and returns, and none is issued against the null set that a
\* failed acquisition returned.
C30_NoUpdateOnNullSet ==
    \A k \in 1 .. Len(lastWrites) :
        /\ lastWrites[k].set = lastSet
        /\ lastWrites[k].set # NullSet

\* C31: every acquisition terminates, with p pools in use at entry after at
\* most p + 1 allocation attempts (the set returned comes from a pool of
\* index at most p) and at most one pool appended, whatever the pools hold
\* and whatever each attempt and the pool creation answer.
C31_AcquisitionBounded ==
    [][IsGetStep =>
          /\ dc'.state # "hung"
          /\ dc'.poolsInUse <= dc.poolsInUse + 1
          /\ lastSet' # NullSet => lastSet'[1] <= dc.poolsInUse]_vars

(***************************************************************************)
(*                 Further properties of the subsystems                    *)
(***************************************************************************)
\* C32: every pipeline that init or a rebuild has created (the texture
\* pipeline, the primitive pipelines, every custom pipeline) was created for
\* the current surface size, width and height, also when the surface is not
\* square.
C32_PipelinesForSurfaceSize ==
    (sys.state = "live" /\ \E k \in 1 .. Len(sys.log) : sys.log[k] = <<"Create", "Pipelines">>) =>
        /\ sys.builtinPipes.state = "created" => sys.builtinPipes.size = sys.surfaceSize
        /\ \A i \in 1 .. Len(sys.customPipes) :
              sys.customPipes[i].state = "created" =>
                  sys.customPipes[i].size = sys.surfaceSize

(***************************************************************************)
(*        Secondary command buffers of a frame (the earlier listing)       *)
(***************************************************************************)
MaxDraws == 2
MaxSwitches == 2

\* _vk2dRendererEndRenderPass: when any secondary buffer was handed out this
\* frame, execute drawCommandBuffers - drawOffset of them starting at
\* drawOffset, in the pass instance that is open; then end the pass.
\* drawOffset is left as it is.
_vk2dRendererEndRenderPass(f) ==
    IF f.count > 0
    THEN [f EXCEPT !.executed =
              @ \o [k \in 1 .. f.count - f.offset |-> <<f.offset + k, f.pass>>]]
    ELSE f

\* vk2dRendererStartFrame: no buffer handed out, drawOffset 0, the target is
\* the screen's framebuffer and the first pass instance is begun.
DrawStartFrame ==
    /\ sys.state = "live"
    /\ ~sys.frame.active
    /\ sys' = [sys EXCEPT !.frame = [NoFrame EXCEPT !.active = TRUE,
                                                    !.target = ScreenTarget,
                                                    !.pass = 1]]
    /\ UNCHANGED <<dcVars, rVars>>

\* vk2dRendererDrawPolygon: the next secondary buffer is taken and recorded
\* with the current target's render pass and framebuffer as inheritance.
DrawPolygon ==
    /\ sys.state = "live"
    /\ sys.frame.active
    /\ sys.frame.count < MaxDraws
    /\ sys' = [sys EXCEPT !.frame.count = @ + 1,
                          !.frame.recorded = Append(@, sys.frame.pass)]
    /\ UNCHANGED <<dcVars, rVars>>

\* vk2dRendererSetTarget: when the target's framebuffer is not the current
\* one, the open pass is ended and a pass on the new target is begun.  What
\* target->fbo reads for the screen target is not fixed by the listing:
\* fboDiffers is the outcome of the comparison in that case.
DrawSetTarget(target, fboDiffers) ==
    /\ sys.state = "live"
    /\ sys.frame.active
    /\ sys.frame.pass <= MaxSwitches
    /\ target \in Textures => fboDiffers = (target # sys.frame.target)
    /\ sys' = IF fboDiffers
              THEN [sys EXCEPT !.frame =
                       [_vk2dRendererEndRenderPass(sys.frame) EXCEPT
                           !.target = target, !.pass = @ + 1]]
              ELSE sys
    /\ UNCHANGED <<dcVars, rVars>>

\* vk2dRendererEndFrame: the open pass is ended and the frame closed.
DrawEndFrame ==
    /\ sys.state = "live"
    /\ sys.frame.active
    /\ sys' = [sys EXCEPT !.frame =
                  [_vk2dRendererEndRenderPass(sys.frame) EXCEPT !.active = FALSE]]
    /\ UNCHANGED <<dcVars, rVars>>

NextDraw ==
    \/ \E config \in SysConfigs, dsiOk \in BOOLEAN, ubMode \in {"benign", "crash"},
          window \in WindowSizes :
          SysInit(config, dsiOk, ubMode, window)
    \/ DrawStartFrame
    \/ DrawPolygon
    \/ \E target \in Targets, fboDiffers \in BOOLEAN : DrawSetTarget(target, fboDiffers)
    \/ DrawEndFrame

SpecDraw == InitSys /\ [][NextDraw]_vars

\* The number of times secondary buffer k has been executed this frame.
Executions(k) ==
    Cardinality({j \in 1 .. Len(sys.frame.executed) : sys.frame.executed[j][1] = k})

\* C33: every secondary buffer recorded in a frame is executed exactly once,
\* in the pass instance that was open when it was recorded: never more than
\* once while the frame is open, never in another pass, and once when the
\* frame has ended.
C33_SecondaryExecutedOnce ==
    /\ \A k \in 1 .. Len(sys.frame.recorded) :
          /\ Executions(k) <= 1
          /\ ~sys.frame.active /\ sys.frame.pass > 0 => Executions(k) = 1
    /\ \A j \in 1 .. Len(sys.frame.executed) :
          sys.frame.executed[j][2] = sys.frame.recorded[sys.frame.executed[j][1]]

(***************************************************************************)
(*                  Properties of the order of teardown                    *)
(***************************************************************************)
\* The renderer has just been shut down by a vk2dRendererQuit that found it.
QuitDone ==
    /\ cmds # <<>>
    /\ Head(cmds)[2] = "vk2dRendererQuit"
    /\ Len(cmds) > 1

\* C34: vk2dRendererQuit destroys the subsystems in the exact reverse of the
\* order in which vk2dRendererInit created them and leaves the singleton
\* null; a vk2dRendererQuit on a null singleton does nothing.
C34_QuitReversesInit ==
    /\ QuitDone => /\ NamesOf(cmds, "Destroy") = Reverse(InitSubsystems)
                   /\ ~Initialized(rd)
    /\ (cmds # <<>> /\ Head(cmds)[2] = "vk2dRendererQuit" /\ ~QuitDone)
          => (~Initialized(rd) /\ gpu = NoDevice)

\* Every destruction of subsystem a in the log comes before every one of b.
DestroyedBefore(log, a, b) ==
    \A i, j \in 1 .. Len(log) :
        (/\ log[i][1] = "Destroy" /\ log[i][2] = a
         /\ log[j][1] = "Destroy" /\ log[j][2] = b) => i < j

\* C35 as stated: in a rebuild and in a shutdown the framebuffers and the
\* swapchain (its images and views) are torn down before the descriptor
\* pool controllers.
C35_ImagesBeforePools ==
    /\ DestroyedBefore(cmds, "FrameBuffer", "DescriptorPool")
    /\ DestroyedBefore(cmds, "Swapchain", "DescriptorPool")

\* C35: in a rebuild and in a shutdown the descriptor pool controllers are
\* destroyed first, the framebuffers and the swapchain after them.
C35_PoolsBeforeImages ==
    /\ DestroyedBefore(cmds, "DescriptorPool", "FrameBuffer")
    /\ DestroyedBefore(cmds, "DescriptorPool", "Swapchain")
    /\ DestroyedBefore(cmds, "FrameBuffer", "Swapchain")

\* A shutdown has destroyed the controllers, the framebuffers and the
\* swapchain.
C35_Witness ==
    /\ QuitDone
    /\ \A name \in {"DescriptorPool", "FrameBuffer", "Swapchain"} :
          \E k \in 1 .. Len(cmds) : cmds[k][1] = "Destroy" /\ cmds[k][2] = name

(***************************************************************************)
(*              Properties of the rebuild under a minimized window         *)
(***************************************************************************)
\* The log holds a destruction or a creation of a subsystem.
TouchesSubsystems(log) ==
    \E k \in 1 .. Len(log) : log[k][1] \in {"Destroy", "Create"}

\* C36: the rebuild destroys nothing and creates no swapchain while the window
\* is reported minimized, it leaves the polling loop only on a poll that saw
\* the window not minimized, and when the window is eventually restored for
\* good the rebuild, and the endFrame that runs it, eventually returns.
C36_RebuildWaitsForWindow ==
    /\ [][/\ pc' = "endFrame:minimized" => ~TouchesSubsystems(cmds')
          /\ (cmds' # cmds /\ TouchesSubsystems(cmds')) => ~env.minimized
          /\ (pc = "endFrame:minimized" /\ pc' # pc) =>
                (~env.minimized /\ pc' = "idle" /\ Rebuilds(cmds') = 1)]_vars
    /\ (<>[](~env.minimized)) => ((pc = "endFrame:minimized") ~> (pc = "idle"))

\* An endFrame that has to rebuild is polling a minimized window.
C36_Witness ==
    /\ pc = "endFrame:minimized"
    /\ env.minimized
    /\ ~rd.procedStartFrame
    /\ ~TouchesSubsystems(cmds)

(***************************************************************************)
(*                       Properties of the camera                          *)
(***************************************************************************)
\* The step is a call of the named routine on a renderer that is there.
IsCallOf(name) ==
    /\ Initialized(rd)
    /\ cmds' # cmds
    /\ Head(cmds')[2] = name

\* C37: vk2dRendererGetCamera returns the camera vk2dRendererSetCamera last
\* installed, which is the spec given with the whole surface as its
\* rectangle on the screen; no other operation changes it in between.
C37_GetCameraReturnsInstalled ==
    [][/\ IsCallOf("vk2dRendererSetCamera") =>
             rd'.cameraSpec = [x |-> Head(cmds')[3].x,
                               xOnScreen |-> 0, yOnScreen |-> 0,
                               wOnScreen |-> rd.surfaceSize[1],
                               hOnScreen |-> rd.surfaceSize[2]]
       /\ (Initialized(rd) /\ Initialized(rd') /\ ~IsCallOf("vk2dRendererSetCamera")) =>
             rd'.cameraSpec = rd.cameraSpec
       /\ IsCallOf("vk2dRendererGetCamera") =>
             cmds'[Len(cmds')] = <<"return", rd.cameraSpec>>]_vars

====
